---- MODULE Spec2Model ----
(***************************************************************************)
(* The voice mesh of X-Code-Compiler: src/components/voice-chat.tsx (the   *)
(* VoiceChat component, one instance per participant) together with the    *)
(* presence endpoint src/app/api/voice/presence/route.ts and the Pusher    *)
(* relay that carries "client-signal" and "voice-user-*" events between    *)
(* the instances.                                                          *)
(*                                                                         *)
(* Every await of the component is a separate step: an async function is a *)
(* task record that waits at a stage, and the step that completes that     *)
(* stage runs the continuation up to the next await.  The RTCPeerConnection *)
(* follows the W3C model: a signaling state machine, and an operations     *)
(* chain that runs the operations invoked on one connection in the order   *)
(* of their invocation and settles none of them once the connection is     *)
(* closed.                                                                 *)
(***************************************************************************)
EXTENDS Integers, Sequences, FiniteSets, Bags, TLC

VARIABLES
    phase,            \* lifecycle of the component: "idle", "mounted", "unmounted"
    connectionStatus, \* useState: "connecting" | "connected" | "error"
    channel,          \* channelRef.current is set
    subscribed,       \* the relay lists the instance as a subscriber of the voice channel
    isMuted,          \* useState(true)
    isAudioEnabled,   \* useState(false)
    activeUsers,      \* useState<string[]>([]), kept without duplicates
    talkingUsers,     \* useState<Set<string>>
    localStream,      \* localStreamRef.current: 0 is null, n > 0 the n-th captured stream
    streamSeq,        \* number of streams getUserMedia has handed out to the instance
    liveStreams,      \* captured streams whose tracks were not stopped
    pcs,              \* peerConnectionsRef.current: peerId -> link (with its operations chain)
    conns,            \* per peer id: RTCPeerConnection objects created and not closed
    sinks,            \* per peer id: audio containers in the DOM
    vadLoops,         \* detectVoiceActivity loops scheduled by requestAnimationFrame
    tasks,            \* bag of async functions waiting for getUserMedia or for ICE gathering
    net,              \* <<source, receiver>> -> client-signal events in flight
    pres,             \* receiver -> voice-user-* events of the endpoint in flight
    posts,            \* POST /api/voice/presence requests in flight
    env,              \* what the users, the relay and the devices still do (the budgets)
    silence,          \* seconds since the endpoint last heard of the participant
    doc,              \* the shared session document, its editors and PUT /api/sessions
    api               \* what the HTTP endpoints keep and what they last answered

vars == << phase, connectionStatus, channel, subscribed, isMuted, isAudioEnabled,
           activeUsers, talkingUsers, localStream, streamSeq, liveStreams, pcs,
           conns, sinks, vadLoops, tasks, net, pres, posts, env, silence, doc, api >>

Clients == {"A", "B", "C"}

\* Bounds of the model.
MaxClicks == 2
MaxCandidates == 1
MaxMicErrors == 1
MaxFrames == 1
MaxSilence == 90
TickSeconds == 30
MaxEdits == 2
MaxRequests == 2
MaxRaces == 1

\* The time to live of a presence entry, in seconds.
PRESENCE_TTL == 60

\* PUT /api/sessions: the time to live of the lock and the delay of the
\* database write, in seconds.
LOCK_TTL == 5
BATCH_DELAY == 2

Others(i) == Clients \ {i}
Pairs == {pr \in Clients \X Clients : pr[1] # pr[2]}

\* useState initial values captured by the closures of the mount effect
\* (the effect's dependencies are [sessionId, clientId, toast], so its
\* handlers keep reading the values of the first render).
MountIsMuted == TRUE
MountIsAudioEnabled == FALSE

----------------------------------------------------------------------------
\* RTCPeerConnection: the signaling state machine the component drives.

Stable == "stable"
HaveLocalOffer == "have-local-offer"
HaveRemoteOffer == "have-remote-offer"

\* A session description: its type, and whether it carries an audio track.
NoDescription == [type |-> "none", track |-> FALSE]
Description(type, track) == [type |-> type, track |-> track]

\* pc.localDescription / pc.remoteDescription: the pending one, else the current one.
LocalDescription(pc) ==
    IF pc.pendingLocal.type # "none" THEN pc.pendingLocal ELSE pc.currentLocal
RemoteDescription(pc) ==
    IF pc.pendingRemote.type # "none" THEN pc.pendingRemote ELSE pc.currentRemote
HasRemoteDescription(pc) == RemoteDescription(pc).type # "none"

\* new RTCPeerConnection + new Audio() of createPeerConnection, with the local
\* tracks added when a capture stream is held.
NewLink(stream, audioEnabled) ==
    [ sig           |-> Stable,
      pendingLocal  |-> NoDescription,
      currentLocal  |-> NoDescription,
      pendingRemote |-> NoDescription,
      currentRemote |-> NoDescription,
      senders       |-> IF stream # 0 THEN {stream} ELSE {},
      muted         |-> ~audioEnabled,
      src           |-> FALSE,
      ontrackAudioEnabled |-> audioEnabled,
      ice           |-> 0,
      ops           |-> << >> ]

\* pc.ontrack: the first remote track attaches the stream to the audio sink.
OnTrack(pc, track) ==
    IF track /\ ~pc.src
    THEN [pc EXCEPT !.src = TRUE, !.muted = ~pc.ontrackAudioEnabled]
    ELSE pc

CanCreateOffer(pc) == pc.sig \in {Stable, HaveLocalOffer}
CanSetLocalOffer(pc) == pc.sig \in {Stable, HaveLocalOffer}
SetLocalOffer(pc, track) ==
    [pc EXCEPT !.sig = HaveLocalOffer, !.pendingLocal = Description("offer", track)]

CanRollback(pc) == pc.sig \in {HaveLocalOffer, HaveRemoteOffer}
Rollback(pc) ==
    [pc EXCEPT !.sig = Stable, !.pendingLocal = NoDescription,
               !.pendingRemote = NoDescription]

CanCreateAnswer(pc) == pc.sig = HaveRemoteOffer
CanSetLocalAnswer(pc) == pc.sig = HaveRemoteOffer
SetLocalAnswer(pc, track) ==
    [pc EXCEPT !.sig = Stable,
               !.currentLocal = Description("answer", track),
               !.currentRemote = pc.pendingRemote,
               !.pendingLocal = NoDescription, !.pendingRemote = NoDescription]

CanSetRemoteAnswer(pc) == pc.sig = HaveLocalOffer
SetRemoteAnswer(pc, track) ==
    OnTrack([pc EXCEPT !.sig = Stable,
                       !.currentLocal = pc.pendingLocal,
                       !.currentRemote = Description("answer", track),
                       !.pendingLocal = NoDescription, !.pendingRemote = NoDescription],
            track)

\* setRemoteDescription(offer); a pending local offer is rolled back by it.
SetRemoteOffer(pc, track) ==
    OnTrack([pc EXCEPT !.sig = HaveRemoteOffer, !.pendingLocal = NoDescription,
                       !.pendingRemote = Description("offer", track)],
            track)

----------------------------------------------------------------------------
\* Tasks and messages.

\* A suspended async function: where it waits, the peer whose connection it
\* holds (closed once closePeerConnection ran on it, with the local description
\* it had then), the signaling state handleOffer read when the offer was
\* delivered, the description it received and the one it created.  A task that
\* awaits an operation of a connection sits in the chain of that link.
Task(kind, peer, stage, inTrack, snap, snapAudio) ==
    [ kind |-> kind, peer |-> peer, stage |-> stage, closed |-> FALSE,
      frozen |-> NoDescription, seen |-> Stable, inTrack |-> inTrack, track |-> FALSE,
      snap |-> snap, snapAudio |-> snapAudio ]

OfferTask(peer) == Task("offer", peer, "createOffer", FALSE, {}, FALSE)
HandleOfferTask(peer, stage, seen, inTrack) ==
    [Task("handleOffer", peer, stage, inTrack, {}, FALSE) EXCEPT !.seen = seen]
HandleAnswerTask(peer, inTrack) == Task("handleAnswer", peer, "setRemote", inTrack, {}, FALSE)
InitTask(snap, snapAudio) == Task("init", "-", "getUserMedia", FALSE, snap, snapAudio)

One(t) == SetToBag({t})

RECURSIVE Copies(_, _)
Copies(bag, S) ==
    IF S = {} THEN 0
    ELSE LET x == CHOOSE y \in S : TRUE IN bag[x] + Copies(bag, S \ {x})

\* connection.close() as the tasks that hold the link see it: the bag of the
\* tasks of a bag, each one closed if it held the link.
CloseHeld(bag, p, pc) ==
    LET F(t) == IF t.peer = p /\ ~t.closed
                THEN [t EXCEPT !.closed = TRUE, !.frozen = LocalDescription(pc)]
                ELSE t
    IN  [u \in {F(t) : t \in DOMAIN bag}
            |-> Copies(bag, {t \in DOMAIN bag : F(t) = u})]

Signal(type, source, target, track) ==
    [ type |-> type, source |-> source, target |-> target, track |-> track ]

\* The RTCPeerConnection of a task that waits for ICE gathering is open, and
\* is the one of the map.
Holds(i, t) == ~t.closed /\ t.peer \in DOMAIN pcs[i]

\* The operations chain of a link: the operation at its head settles, and the
\* function that awaited it either invokes its next operation or leaves.
Advance(pc, t) == [pc EXCEPT !.ops = Append(Tail(@), t)]
Finish(pc) == [pc EXCEPT !.ops = Tail(@)]

\* pc.localDescription || own, as createAndSendOffer and handleOffer send it.
Outgoing(i, t, own) ==
    LET d == IF Holds(i, t) THEN LocalDescription(pcs[i][t.peer]) ELSE t.frozen
    IN  IF d.type # "none" THEN d ELSE own

----------------------------------------------------------------------------
\* The relay.

Order == << "A", "B", "C" >>
InOrder(S) == SelectSeq(Order, LAMBDA c : c \in S)

\* channel.trigger("client-signal", ...): a client event reaches every other
\* subscriber of the channel; the receiver filters on targetClientId.
Broadcast(n, i, msgs) ==
    [pr \in Pairs |->
        IF pr[1] = i /\ subscribed[pr[2]] THEN n[pr] \o msgs ELSE n[pr]]

\* sendSignal for a sequence of signals of instance i.
SendSignals(n, i, msgs) ==
    IF channel[i] /\ subscribed[i] THEN Broadcast(n, i, msgs) ELSE n

SignalsTo(i, targets, type) ==
    LET ord == InOrder(targets)
    IN  [k \in 1..Len(ord) |-> Signal(type, i, ord[k], FALSE)]

----------------------------------------------------------------------------
\* The link map.

\* peerConnectionsRef.current[peerId] is set.
HasLink(map, p) == p \in DOMAIN map

Without(map, p) == [q \in DOMAIN map \ {p} |-> map[q]]

\* A createPeerConnection without the check for an existing link.
CreatePeerConnectionAnew(map, p, stream, audioEnabled) ==
    (p :> NewLink(stream, audioEnabled)) @@ Without(map, p)

\* createPeerConnection: the existing link, or a new one stored in the map.
CreatePeerConnection(map, p, stream, audioEnabled) ==
    IF HasLink(map, p) THEN map
    ELSE (p :> NewLink(stream, audioEnabled)) @@ Without(map, p)

\* The objects createPeerConnection allocates: one RTCPeerConnection and one
\* audio container per call that passes the guard.
Allocated(count, map, p) ==
    IF HasLink(map, p) THEN count ELSE [count EXCEPT ![p] = @ + 1]

\* A closePeerConnection that closes every link of the map.
ClosePeerConnectionOfAll(map, p) == IF HasLink(map, p) THEN << >> ELSE map

\* A closePeerConnection that keeps the entry of the map.
ClosePeerConnectionKeepsEntry(map, p) == map

\* closePeerConnection on the map, and on the objects it releases:
\* connection.close(), and the removal of the container found by its id.
ClosePeerConnection(map, p) == IF HasLink(map, p) THEN Without(map, p) ELSE map

Released(count, map, p) ==
    IF HasLink(map, p) /\ count[p] > 0 THEN [count EXCEPT ![p] = @ - 1] ELSE count

ClosedTasks(bag, map, p) == IF HasLink(map, p) THEN CloseHeld(bag, p, map[p]) ELSE bag

----------------------------------------------------------------------------
\* The HTTP endpoints.

\* No response yet.
NoStatus == 0

\* A field the JSON body lacks, and an event that is not triggered.
Missing == ""

\* The session the participants have open, and another one.
ThisSession == "s"
OtherSession == "t"

\* No key in redis, no request heard, nothing broadcast.
None == -1

NewApi ==
    [ status |-> NoStatus,   \* status of the last response of POST /api/voice/presence
      others |-> << >>,      \* events triggered on the voice channels of other sessions
      keys   |-> [c \in Clients |-> None],  \* redis presence:<sessionId>:<clientId>:
                                            \* the seconds since Date.now() of its value
      heard  |-> [c \in Clients |-> None],  \* seconds since the client's latest join or
                                            \* heartbeat, None after its leave
      counts |-> {},         \* presence-update events counted and not triggered yet
      shown  |-> None ]      \* count of the last presence-update triggered

----------------------------------------------------------------------------
\* The shared session document: src/components/code-compiler.tsx (one
\* CodeCompiler per participant) and PUT /api/sessions.

Fields == {"language", "code", "input"}

\* What the editors show when they have loaded the session.
Template == [f \in Fields |-> << "-", 0 >>]

NewDocument ==
    [ content   |-> [i \in Clients |-> Template], \* useState: language, code, input
      receiving |-> [i \in Clients |-> FALSE],    \* isReceivingUpdate.current
      resets    |-> [i \in Clients |-> 0],        \* timers of the code-updated handler
      applied   |-> [i \in Clients |-> << >>],    \* what the code-updated handlers have set
                                                  \* and React has not rendered yet
      saves     |-> [i \in Clients |-> {}],       \* debounced saveSession calls that wait
      puts      |-> {},                           \* PUT requests, sent or inside the handler
      cache     |-> Template,                     \* redis: session:<sessionId>
      updates   |-> [i \in Clients |-> << >>],    \* code-updated events on the way to a client
      pending   |-> << >>,                        \* redis: session:<sessionId>:pending,
                                                  \* the update if there is one
      lock      |-> 0,                            \* redis: session:<sessionId>:lock, the
                                                  \* seconds it has left (0: no key)
      timers    |-> << >>,                        \* setTimeout of PUT: the seconds each has left
      writes    |-> {},                           \* timer callbacks of PUT that are running
      db        |-> Template,                     \* the row of prisma.session
      status    |-> NoStatus ]                    \* status of the last response of PUT

----------------------------------------------------------------------------
\* Construction.

\* The session that is explored: A and B open the page; A clicks the mute
\* button up to MaxClicks times and B once; A's connections trickle up to
\* MaxCandidates ICE candidates; B may fail to subscribe, and B may close the
\* page; getUserMedia fails up to MaxMicErrors times.
Session ==
    [ mounters   |-> {"A", "B"},
      clicks     |-> [i \in Clients |-> IF i = "A" THEN MaxClicks ELSE IF i = "B" THEN 1 ELSE 0],
      candidates |-> [i \in Clients |-> IF i = "A" THEN MaxCandidates ELSE 0],
      leavers    |-> {"B"},
      subErrors  |-> {"B"},
      micErrors  |-> MaxMicErrors,
      frames     |-> [i \in Clients |-> 0],
      edits      |-> [i \in Clients |-> 0],
      requests   |-> 0,
      races      |-> 0 ]

Start(session) ==
    /\ phase = [i \in Clients |-> "idle"]
    /\ connectionStatus = [i \in Clients |-> "connecting"]
    /\ channel = [i \in Clients |-> FALSE]
    /\ subscribed = [i \in Clients |-> FALSE]
    /\ isMuted = [i \in Clients |-> TRUE]
    /\ isAudioEnabled = [i \in Clients |-> FALSE]
    /\ activeUsers = [i \in Clients |-> {}]
    /\ talkingUsers = [i \in Clients |-> {}]
    /\ localStream = [i \in Clients |-> 0]
    /\ streamSeq = [i \in Clients |-> 0]
    /\ liveStreams = [i \in Clients |-> {}]
    /\ pcs = [i \in Clients |-> << >>]
    /\ conns = [i \in Clients |-> [p \in Clients |-> 0]]
    /\ sinks = [i \in Clients |-> [p \in Clients |-> 0]]
    /\ vadLoops = [i \in Clients |-> 0]
    /\ tasks = [i \in Clients |-> EmptyBag]
    /\ net = [pr \in Pairs |-> << >>]
    /\ pres = [d \in Clients |-> << >>]
    /\ posts = {}
    /\ env = session
    /\ silence = [i \in Clients |-> 0]
    /\ doc = NewDocument
    /\ api = NewApi

Init == Start(Session)

----------------------------------------------------------------------------
\* Mount, subscription and presence.

\* The mount effect up to pusherClient.subscribe.
Mount(i) ==
    /\ phase[i] = "idle" /\ i \in env.mounters
    /\ phase' = [phase EXCEPT ![i] = "mounted"]
    /\ channel' = [channel EXCEPT ![i] = TRUE]
    /\ UNCHANGED << api, doc, connectionStatus, subscribed, isMuted, isAudioEnabled, activeUsers,
                    talkingUsers, localStream, streamSeq, liveStreams, pcs, conns,
                    sinks, vadLoops, tasks, net, pres, posts, env, silence >>

\* A subscription that succeeds whatever the status is.
SubscriptionSucceededInAnyStatus(i) ==
    /\ phase[i] = "mounted" /\ ~subscribed[i]
    /\ subscribed' = [subscribed EXCEPT ![i] = TRUE]
    /\ connectionStatus' = [connectionStatus EXCEPT ![i] = "connected"]
    /\ posts' = posts \cup {<< i, "join" >>}
    /\ UNCHANGED << api, doc, phase, channel, isMuted, isAudioEnabled, activeUsers, talkingUsers,
                    localStream, streamSeq, liveStreams, pcs, conns, sinks, vadLoops,
                    tasks, net, pres, env, silence >>

\* pusher:subscription_succeeded: connected, and announcePresence("join").
SubscriptionSucceeded(i) ==
    /\ phase[i] = "mounted" /\ ~subscribed[i] /\ connectionStatus[i] = "connecting"
    /\ subscribed' = [subscribed EXCEPT ![i] = TRUE]
    /\ connectionStatus' = [connectionStatus EXCEPT ![i] = "connected"]
    /\ posts' = posts \cup {<< i, "join" >>}
    /\ UNCHANGED << api, doc, phase, channel, isMuted, isAudioEnabled, activeUsers, talkingUsers,
                    localStream, streamSeq, liveStreams, pcs, conns, sinks, vadLoops,
                    tasks, net, pres, env, silence >>

\* pusher:subscription_error.
SubscriptionError(i) ==
    /\ phase[i] = "mounted" /\ ~subscribed[i] /\ connectionStatus[i] = "connecting"
    /\ i \in env.subErrors
    /\ connectionStatus' = [connectionStatus EXCEPT ![i] = "error"]
    /\ UNCHANGED << api, doc, phase, channel, subscribed, isMuted, isAudioEnabled, activeUsers,
                    talkingUsers, localStream, streamSeq, liveStreams, pcs, conns,
                    sinks, vadLoops, tasks, net, pres, posts, env, silence >>

\* POST /api/voice/presence: join and leave are re-broadcast on the voice
\* channel to every subscriber, the caller included; a heartbeat is not.
PresenceEvent(action) == IF action = "join" THEN "voice-user-joined" ELSE "voice-user-left"

Announced(q, c, action) ==
    [d \in Clients |->
        IF subscribed[d] /\ action \in {"join", "leave"}
        THEN Append(q[d], [event |-> PresenceEvent(action), clientId |-> c])
        ELSE q[d]]

\* A handler that takes a heartbeat for a join.
VoicePresenceOfHeartbeatAnnounced(r) ==
    IF r.sessionId = Missing \/ r.clientId = Missing \/ r.action = Missing
    THEN [status |-> 400, event |-> Missing]
    ELSE IF r.action \in {"join", "heartbeat"} THEN [status |-> 200, event |-> "voice-user-joined"]
    ELSE IF r.action = "leave" THEN [status |-> 200, event |-> "voice-user-left"]
    ELSE [status |-> 400, event |-> Missing]

\* The handler of POST /api/voice/presence: the status it answers and the event
\* it triggers on the channel private-voice-<sessionId>.
VoicePresence(r) ==
    IF r.sessionId = Missing \/ r.clientId = Missing \/ r.action = Missing
    THEN [status |-> 400, event |-> Missing]
    ELSE IF r.action = "join" THEN [status |-> 200, event |-> "voice-user-joined"]
    ELSE IF r.action = "leave" THEN [status |-> 200, event |-> "voice-user-left"]
    ELSE IF r.action = "heartbeat" THEN [status |-> 200, event |-> Missing]
    ELSE [status |-> 400, event |-> Missing]

\* The endpoint serves the request: the relay hands the event to the
\* subscribers of the channel of the request's session.
Served(r) ==
    LET out  == VoicePresence(r)
        note == [event |-> out.event, clientId |-> r.clientId]
    IN  /\ pres' = [d \in Clients |->
                      IF subscribed[d] /\ out.event # Missing /\ r.sessionId = ThisSession
                      THEN Append(pres[d], note)
                      ELSE pres[d]]
        /\ api' = [api EXCEPT
                     !.status = out.status,
                     !.others = IF out.event # Missing /\ r.sessionId # ThisSession
                                THEN Append(@, [note EXCEPT !.event = << r.sessionId, @ >>])
                                ELSE @]
        /\ silence' = [d \in Clients |->
                         IF d = r.clientId /\ r.sessionId = ThisSession THEN 0 ELSE silence[d]]

\* announcePresence(action) of the instance c reaches the endpoint.
PresencePost(c, action) ==
    /\ << c, action >> \in posts
    /\ posts' = posts \ {<< c, action >>}
    /\ Served([sessionId |-> ThisSession, clientId |-> c, action |-> action])
    /\ UNCHANGED << doc, phase, connectionStatus, channel, subscribed, isMuted,
                    isAudioEnabled, activeUsers, talkingUsers, localStream, streamSeq,
                    liveStreams, pcs, conns, sinks, vadLoops, tasks, net, env >>

\* The requests that reach the endpoint from elsewhere: a second tab, a retry
\* of the network, another session, a malformed body.
Requests ==
    [ sessionId : {ThisSession, OtherSession, Missing},
      clientId  : {"B", Missing},
      action    : {"join", "leave", "heartbeat", "ping", Missing} ]

PresenceRequest(r) ==
    /\ env.requests > 0
    /\ env' = [env EXCEPT !.requests = @ - 1]
    /\ Served(r)
    /\ UNCHANGED << doc, phase, connectionStatus, channel, subscribed, isMuted,
                    isAudioEnabled, activeUsers, talkingUsers, localStream, streamSeq,
                    liveStreams, pcs, conns, sinks, vadLoops, tasks, net, posts >>

\* The settle timer of the voice-user-joined handler is set only if
\* (!isMuted && localStreamRef.current), isMuted being the mount render's.
SettleTimers(d, c) ==
    IF ~MountIsMuted /\ localStream[d] # 0
    THEN One(Task("settle", c, "timer", FALSE, {}, FALSE))
    ELSE EmptyBag

\* A handler that does not look whose id the event carries.
ForeignOrOwn(d, c) == TRUE

\* if (data.clientId !== clientId) of the handlers of voice-user-joined and
\* voice-user-left.
Foreign(d, c) == c # d

\* channel.bind("voice-user-joined").
VoiceUserJoined(d, c) ==
    /\ subscribed[d] /\ pres[d] # << >>
    /\ Head(pres[d]) = [event |-> "voice-user-joined", clientId |-> c]
    /\ pres' = [pres EXCEPT ![d] = Tail(@)]
    /\ IF Foreign(d, c)
       THEN /\ activeUsers' = [activeUsers EXCEPT ![d] = @ \cup {c}]
            /\ IF ~HasLink(pcs[d], c)
               THEN /\ pcs' = [pcs EXCEPT ![d] = CreatePeerConnection(
                                   @, c, localStream[d], MountIsAudioEnabled)]
                    /\ conns' = [conns EXCEPT ![d] = Allocated(@, pcs[d], c)]
                    /\ sinks' = [sinks EXCEPT ![d] = Allocated(@, pcs[d], c)]
                    /\ tasks' = [tasks EXCEPT ![d] = @ (+) SettleTimers(d, c)]
               ELSE UNCHANGED << pcs, conns, sinks, tasks >>
       ELSE UNCHANGED << activeUsers, pcs, conns, sinks, tasks >>
    /\ UNCHANGED << api, doc, phase, connectionStatus, channel, subscribed, isMuted,
                    isAudioEnabled, talkingUsers, localStream, streamSeq, liveStreams,
                    vadLoops, net, posts, env, silence >>

\* channel.bind("voice-user-left"): closePeerConnection for the leaver.
VoiceUserLeft(d, c) ==
    /\ subscribed[d] /\ pres[d] # << >>
    /\ Head(pres[d]) = [event |-> "voice-user-left", clientId |-> c]
    /\ pres' = [pres EXCEPT ![d] = Tail(@)]
    /\ IF Foreign(d, c)
       THEN /\ activeUsers' = [activeUsers EXCEPT ![d] = @ \ {c}]
            /\ pcs' = [pcs EXCEPT ![d] = ClosePeerConnection(@, c)]
            /\ conns' = [conns EXCEPT ![d] = Released(@, pcs[d], c)]
            /\ sinks' = [sinks EXCEPT ![d] = Released(@, pcs[d], c)]
            /\ tasks' = [tasks EXCEPT ![d] = ClosedTasks(@, pcs[d], c)]
            /\ talkingUsers' = [talkingUsers EXCEPT ![d] =
                                  IF HasLink(pcs[d], c) THEN @ \ {c} ELSE @]
       ELSE UNCHANGED << activeUsers, pcs, conns, sinks, tasks, talkingUsers >>
    /\ UNCHANGED << api, doc, phase, connectionStatus, channel, subscribed, isMuted,
                    isAudioEnabled, localStream, streamSeq, liveStreams, vadLoops, net,
                    posts, env, silence >>

----------------------------------------------------------------------------
\* Mute, unmute and the microphone.

\* The isMuted effect on becoming muted: stop the capture stream, drop the
\* reference, and tell every peer; nothing at all when no stream is held.
MuteStops(i) == IF localStream[i] # 0 THEN {localStream[i]} ELSE {}

\* An isMuted effect that tells nobody.
MuteSignalsToNobody(i) == << >>

MuteSignals(i) ==
    IF localStream[i] # 0 THEN SignalsTo(i, DOMAIN pcs[i], "mute") ELSE << >>

\* The senders of a link after the isMuted effect ran on becoming muted: the
\* effect calls neither removeTrack nor replaceTrack.
MuteSenders(pc) == pc.senders

MuteEffect(i) ==
    /\ liveStreams' = [liveStreams EXCEPT ![i] = @ \ MuteStops(i)]
    /\ localStream' = [localStream EXCEPT ![i] = 0]
    /\ pcs' = [pcs EXCEPT ![i] =
                [p \in DOMAIN pcs[i] |-> [pcs[i][p] EXCEPT !.senders = MuteSenders(pcs[i][p])]]]
    /\ net' = SendSignals(net, i, MuteSignals(i))

\* toggleMute followed by the isMuted effect.
ToggleMute(i) ==
    /\ phase[i] = "mounted" /\ env.clicks[i] > 0
    /\ env' = [env EXCEPT !.clicks[i] = @ - 1]
    /\ isMuted' = [isMuted EXCEPT ![i] = ~@]
    /\ IF isMuted[i]
       THEN /\ tasks' = [tasks EXCEPT ![i] = @ (+) One(InitTask(activeUsers[i], isAudioEnabled[i]))]
            /\ UNCHANGED << liveStreams, localStream, pcs, net >>
       ELSE /\ MuteEffect(i)
            /\ UNCHANGED tasks
    /\ UNCHANGED << api, doc, phase, connectionStatus, channel, subscribed, isAudioEnabled,
                    activeUsers, talkingUsers, streamSeq, conns, sinks, vadLoops,
                    pres, posts, silence >>

IsInit(t) == t.kind = "init"

\* An initializeLocalStream that leaves the senders of the existing links alone.
UnmutedKeepsSenders(map, snap, stream, audioEnabled) ==
    [p \in DOMAIN map \cup snap |->
        IF HasLink(map, p)
        THEN [map[p] EXCEPT !.ops = Append(@, OfferTask(p))]
        ELSE [NewLink(stream, audioEnabled) EXCEPT !.ops = << OfferTask(p) >>]]

\* The links after initializeLocalStream ran on the map: every existing link
\* has its audio sender swapped for the new track, and the active users of the
\* unmuting render that have no link get one.
Unmuted(map, snap, stream, audioEnabled) ==
    [p \in DOMAIN map \cup snap |->
        IF HasLink(map, p)
        THEN [map[p] EXCEPT !.senders = {stream}, !.ops = Append(@, OfferTask(p))]
        ELSE [NewLink(stream, audioEnabled) EXCEPT !.ops = << OfferTask(p) >>]]

\* initializeLocalStream after getUserMedia resolved: keep the stream, start the
\* voice-activity loop, swap the tracks, create the missing links, and call
\* createAndSendOffer for every link.
GetUserMediaResolvedOf(i, t) ==
    /\ t \in BagToSet(tasks[i]) /\ IsInit(t)
    /\ LET stream == streamSeq[i] + 1
           fresh  == {p \in t.snap : ~HasLink(pcs[i], p)}
           map    == Unmuted(pcs[i], t.snap, stream, t.snapAudio)
       IN  /\ streamSeq' = [streamSeq EXCEPT ![i] = stream]
           /\ localStream' = [localStream EXCEPT ![i] = stream]
           /\ liveStreams' = [liveStreams EXCEPT ![i] = @ \cup {stream}]
           /\ vadLoops' = [vadLoops EXCEPT ![i] = @ + 1]
           /\ pcs' = [pcs EXCEPT ![i] = map]
           /\ conns' = [conns EXCEPT ![i] =
                          [p \in Clients |-> conns[i][p] + (IF p \in fresh THEN 1 ELSE 0)]]
           /\ sinks' = [sinks EXCEPT ![i] =
                          [p \in Clients |-> sinks[i][p] + (IF p \in fresh THEN 1 ELSE 0)]]
           /\ tasks' = [tasks EXCEPT ![i] = @ (-) One(t)]
    /\ UNCHANGED << api, doc, phase, connectionStatus, channel, subscribed, isMuted,
                    isAudioEnabled, activeUsers, talkingUsers, net, pres, posts, env,
                    silence >>

\* An initializeLocalStream whose catch block leaves isMuted alone.
GetUserMediaRejectedStaysUnmuted(i, t) ==
    /\ t \in BagToSet(tasks[i]) /\ IsInit(t)
    /\ env.micErrors > 0
    /\ env' = [env EXCEPT !.micErrors = @ - 1]
    /\ tasks' = [tasks EXCEPT ![i] = @ (-) One(t)]
    /\ UNCHANGED << isMuted, liveStreams, localStream, pcs, net >>
    /\ UNCHANGED << api, doc, phase, connectionStatus, channel, subscribed, isAudioEnabled,
                    activeUsers, talkingUsers, streamSeq, conns, sinks, vadLoops,
                    pres, posts, silence >>

\* initializeLocalStream when getUserMedia rejects: setIsMuted(true), and the
\* isMuted effect if that changed the state.
GetUserMediaRejectedOf(i, t) ==
    /\ t \in BagToSet(tasks[i]) /\ IsInit(t)
    /\ env.micErrors > 0
    /\ env' = [env EXCEPT !.micErrors = @ - 1]
    /\ tasks' = [tasks EXCEPT ![i] = @ (-) One(t)]
    /\ IF phase[i] = "mounted" /\ ~isMuted[i]
       THEN /\ isMuted' = [isMuted EXCEPT ![i] = TRUE]
            /\ MuteEffect(i)
       ELSE UNCHANGED << isMuted, liveStreams, localStream, pcs, net >>
    /\ UNCHANGED << api, doc, phase, connectionStatus, channel, subscribed, isAudioEnabled,
                    activeUsers, talkingUsers, streamSeq, conns, sinks, vadLoops,
                    pres, posts, silence >>

\* A frame of detectVoiceActivity in which the user is heard: the loop runs
\* once a stream was captured, and hears something while the capture is live.
VoiceActivity(i) ==
    /\ phase[i] = "mounted" /\ vadLoops[i] > 0
    /\ localStream[i] \in liveStreams[i]
    /\ env.frames[i] > 0
    /\ env' = [env EXCEPT !.frames[i] = @ - 1]
    /\ net' = SendSignals(net, i, SignalsTo(i, DOMAIN pcs[i], "speaking"))
    /\ UNCHANGED << api, doc, phase, connectionStatus, channel, subscribed, isMuted,
                    isAudioEnabled, activeUsers, talkingUsers, localStream, streamSeq,
                    liveStreams, pcs, conns, sinks, vadLoops, tasks, pres, posts,
                    silence >>

----------------------------------------------------------------------------
\* Negotiation: createAndSendOffer, handleOffer, handleAnswer.

\* The operation at the head of the chain of the link of i to p.
AtHead(i, p, kind, stage) ==
    /\ HasLink(pcs[i], p)
    /\ pcs[i][p].ops # << >>
    /\ Head(pcs[i][p].ops).kind = kind
    /\ Head(pcs[i][p].ops).stage = stage

\* What a step of a chain leaves alone.
ChainFrame ==
    UNCHANGED << api, doc, phase, connectionStatus, channel, subscribed, isMuted, isAudioEnabled,
                 activeUsers, talkingUsers, localStream, streamSeq, liveStreams, conns,
                 sinks, vadLoops, net, pres, posts, env, silence >>

\* The function leaves the chain and waits for ICE gathering to complete.
Gathering(i, t) == [tasks EXCEPT ![i] = @ (+) One([t EXCEPT !.stage = "gather"])]

\* await pc.createOffer(...), then pc.setLocalDescription(offer) is invoked.
OfferCreated(i, p) ==
    /\ AtHead(i, p, "offer", "createOffer")
    /\ LET pc == pcs[i][p]
           t  == Head(pc.ops)
       IN  pcs' = [pcs EXCEPT ![i][p] =
                     IF CanCreateOffer(pc)
                     THEN Advance(pc, [t EXCEPT !.stage = "setLocal",
                                                !.track = pc.senders # {}])
                     ELSE Finish(pc)]
    /\ UNCHANGED tasks
    /\ ChainFrame

\* await pc.setLocalDescription(offer)
OfferSetLocal(i, p) ==
    /\ AtHead(i, p, "offer", "setLocal")
    /\ LET pc == pcs[i][p]
           t  == Head(pc.ops)
       IN  IF CanSetLocalOffer(pc)
           THEN /\ pcs' = [pcs EXCEPT ![i][p] = Finish(SetLocalOffer(pc, t.track))]
                /\ tasks' = Gathering(i, t)
           ELSE /\ pcs' = [pcs EXCEPT ![i][p] = Finish(pc)]
                /\ UNCHANGED tasks
    /\ ChainFrame

\* What a step of a function that waits for ICE gathering leaves alone.
TaskFrame ==
    UNCHANGED << api, doc, phase, connectionStatus, channel, subscribed, isMuted, isAudioEnabled,
                 activeUsers, talkingUsers, localStream, streamSeq, liveStreams, pcs,
                 conns, sinks, vadLoops, pres, posts, silence >>

\* pc.onicecandidate while the function waits for ICE gathering.
OnIceCandidateOf(i, t) ==
    /\ t.stage = "gather" /\ Holds(i, t)
    /\ env.candidates[i] > 0
    /\ env' = [env EXCEPT !.candidates[i] = @ - 1]
    /\ net' = SendSignals(net, i, << Signal("candidate", i, t.peer, FALSE) >>)
    /\ UNCHANGED tasks
    /\ TaskFrame

\* sendSignal(peerId, pc.localDescription || own) after the gathering wait.
SendDescription(i, t, own) ==
    LET d == Outgoing(i, t, own)
    IN  SendSignals(net, i, << Signal(d.type, i, t.peer, d.track) >>)

OfferSentOf(i, t) ==
    /\ t.kind = "offer" /\ t.stage = "gather"
    /\ net' = SendDescription(i, t, Description("offer", t.track))
    /\ tasks' = [tasks EXCEPT ![i] = @ (-) One(t)]
    /\ UNCHANGED env
    /\ TaskFrame

\* A handleOffer that never rolls back.
NeverRollsBack(pc) == FALSE

\* if (pc.signalingState !== "stable") of handleOffer.
NeedsRollback(pc) == pc.sig # Stable
FirstStage(pc) == IF NeedsRollback(pc) THEN "rollback" ELSE "setRemote"

\* What the delivery of a client-signal leaves alone.
DeliveryFrame ==
    UNCHANGED << api, doc, phase, connectionStatus, channel, subscribed, isMuted, isAudioEnabled,
                 activeUsers, talkingUsers, localStream, streamSeq, liveStreams,
                 vadLoops, tasks, pres, posts, env, silence >>

\* A client-signal handler without the test of targetClientId.
DeliveredToAnyone(d, s, kinds) ==
    /\ subscribed[d] /\ net[<< s, d >>] # << >>
    /\ Head(net[<< s, d >>]).type \in kinds
    /\ net' = [net EXCEPT ![<< s, d >>] = Tail(@)]

\* The client-signal handler takes the next event of s, addressed to d.
Delivered(d, s, kinds) ==
    /\ subscribed[d] /\ net[<< s, d >>] # << >>
    /\ Head(net[<< s, d >>]).target = d
    /\ Head(net[<< s, d >>]).type \in kinds
    /\ net' = [net EXCEPT ![<< s, d >>] = Tail(@)]

\* The link map after handleOffer ran up to its first await: the link exists,
\* and the rollback or the setRemoteDescription is invoked on it.
Offered(map, s, stream, m) ==
    LET made == IF HasLink(map, s) THEN map
                ELSE CreatePeerConnection(map, s, stream, MountIsAudioEnabled)
    IN  [made EXCEPT ![s].ops =
            Append(@, HandleOfferTask(s, FirstStage(made[s]), made[s].sig, m.track))]

HandleOffer(d, s) ==
    /\ Delivered(d, s, {"offer"})
    /\ pcs' = [pcs EXCEPT ![d] = Offered(@, s, localStream[d], Head(net[<< s, d >>]))]
    /\ conns' = [conns EXCEPT ![d] = Allocated(@, pcs[d], s)]
    /\ sinks' = [sinks EXCEPT ![d] = Allocated(@, pcs[d], s)]
    /\ DeliveryFrame

\* await pc.setLocalDescription({ type: "rollback" })
OfferRolledBack(i, p) ==
    /\ AtHead(i, p, "handleOffer", "rollback")
    /\ LET pc == pcs[i][p]
           t  == Head(pc.ops)
       IN  pcs' = [pcs EXCEPT ![i][p] =
                     IF CanRollback(pc)
                     THEN Advance(Rollback(pc), [t EXCEPT !.stage = "setRemote"])
                     ELSE Finish(pc)]
    /\ UNCHANGED tasks
    /\ ChainFrame

\* await pc.setRemoteDescription(offer): with a local offer pending the browser
\* either rolls it back itself or rejects.
RemoteOfferSet(i, p) ==
    /\ AtHead(i, p, "handleOffer", "setRemote")
    /\ LET pc == pcs[i][p]
           t  == Head(pc.ops)
       IN  \E accepted \in BOOLEAN :
             /\ pc.sig = HaveLocalOffer \/ accepted
             /\ pcs' = [pcs EXCEPT ![i][p] =
                          IF accepted
                          THEN Advance(SetRemoteOffer(pc, t.inTrack),
                                       [t EXCEPT !.stage = "createAnswer"])
                          ELSE Finish(pc)]
    /\ UNCHANGED tasks
    /\ ChainFrame

\* await pc.createAnswer()
AnswerCreated(i, p) ==
    /\ AtHead(i, p, "handleOffer", "createAnswer")
    /\ LET pc == pcs[i][p]
           t  == Head(pc.ops)
       IN  pcs' = [pcs EXCEPT ![i][p] =
                     IF CanCreateAnswer(pc)
                     THEN Advance(pc, [t EXCEPT !.stage = "setLocal",
                                                !.track = pc.senders # {}])
                     ELSE Finish(pc)]
    /\ UNCHANGED tasks
    /\ ChainFrame

\* await pc.setLocalDescription(answer)
AnswerSetLocal(i, p) ==
    /\ AtHead(i, p, "handleOffer", "setLocal")
    /\ LET pc == pcs[i][p]
           t  == Head(pc.ops)
       IN  IF CanSetLocalAnswer(pc)
           THEN /\ pcs' = [pcs EXCEPT ![i][p] = Finish(SetLocalAnswer(pc, t.track))]
                /\ tasks' = Gathering(i, t)
           ELSE /\ pcs' = [pcs EXCEPT ![i][p] = Finish(pc)]
                /\ UNCHANGED tasks
    /\ ChainFrame

AnswerSentOf(i, t) ==
    /\ t.kind = "handleOffer" /\ t.stage = "gather"
    /\ net' = SendDescription(i, t, Description("answer", t.track))
    /\ tasks' = [tasks EXCEPT ![i] = @ (-) One(t)]
    /\ UNCHANGED env
    /\ TaskFrame

\* A handleAnswer that applies the answer to a link in any signaling state.
AcceptsAnswerInAnyState(map, s) == HasLink(map, s)

\* handleAnswer applies the answer only to a link that awaits one.
AcceptsAnswer(map, s) == HasLink(map, s) /\ map[s].sig = HaveLocalOffer

\* The link map after handleAnswer ran up to its await.
Answered(map, s, m) ==
    IF AcceptsAnswer(map, s)
    THEN [map EXCEPT ![s].ops = Append(@, HandleAnswerTask(s, m.track))]
    ELSE map

HandleAnswer(d, s) ==
    /\ Delivered(d, s, {"answer"})
    /\ pcs' = [pcs EXCEPT ![d] = Answered(@, s, Head(net[<< s, d >>]))]
    /\ UNCHANGED << conns, sinks >>
    /\ DeliveryFrame

\* await pc.setRemoteDescription(answer)
RemoteAnswerSet(i, p) ==
    /\ AtHead(i, p, "handleAnswer", "setRemote")
    /\ LET pc == pcs[i][p]
           t  == Head(pc.ops)
       IN  pcs' = [pcs EXCEPT ![i][p] =
                     IF CanSetRemoteAnswer(pc)
                     THEN Finish(SetRemoteAnswer(pc, t.inTrack))
                     ELSE Finish(pc)]
    /\ UNCHANGED tasks
    /\ ChainFrame

\* A handleIceCandidate that makes a link for a sender it has none for.
AddIceCandidateMakesLink(map, s) ==
    IF HasLink(map, s)
    THEN IF HasRemoteDescription(map[s]) THEN [map EXCEPT ![s].ice = @ + 1] ELSE map
    ELSE (s :> NewLink(0, FALSE)) @@ map

\* A handleIceCandidate that adds the candidate whether or not the link has a
\* remote description.
AddIceCandidateEarly(map, s) ==
    IF HasLink(map, s) THEN [map EXCEPT ![s].ice = @ + 1] ELSE map

\* handleIceCandidate: the candidate is added to an existing link that has a
\* remote description, and dropped otherwise.
AddIceCandidate(map, s) ==
    IF HasLink(map, s)
    THEN IF HasRemoteDescription(map[s]) THEN [map EXCEPT ![s].ice = @ + 1] ELSE map
    ELSE map

HandleIceCandidate(d, s) ==
    /\ Delivered(d, s, {"candidate"})
    /\ pcs' = [pcs EXCEPT ![d] = AddIceCandidate(@, s)]
    /\ UNCHANGED << conns, sinks >>
    /\ DeliveryFrame

\* signal.type === "speaking" with speaking true: the sender is marked talking.
HandleSpeaking(d, s) ==
    /\ Delivered(d, s, {"speaking"})
    /\ talkingUsers' = [talkingUsers EXCEPT ![d] = @ \cup {s}]
    /\ UNCHANGED << api, doc, phase, connectionStatus, channel, subscribed, isMuted,
                    isAudioEnabled, activeUsers, localStream, streamSeq, liveStreams,
                    pcs, conns, sinks, vadLoops, tasks, pres, posts, env, silence >>

\* signal.type === "mute": nothing is done with it.
HandleMute(d, s) ==
    /\ Delivered(d, s, {"mute"})
    /\ UNCHANGED << pcs, conns, sinks >>
    /\ DeliveryFrame

----------------------------------------------------------------------------
\* Unmount.

\* The functions that outlive the component: one that waits for ICE gathering
\* finds channelRef.current null when it resumes and sends nothing, so only
\* those that wait for getUserMedia still do something.
Outliving(bag) ==
    LET S == {t \in DOMAIN bag : IsInit(t)}
    IN  [t \in S |-> bag[t]]

\* cancelAnimationFrame(animationFrameRef.current) of the cleanup of the audio
\* context effect: the ref holds the last frame requested, so one loop ends.
Cancelled(loops) == IF loops > 0 THEN loops - 1 ELSE 0

\* The component unmounts: the cleanup of the mount effect announces the leave,
\* closes every link, stops the capture stream and unsubscribes; the cleanup of
\* the audio context effect cancels the animation frame it knows of.
Unmount(i) ==
    /\ phase[i] = "mounted" /\ i \in env.leavers
    /\ phase' = [phase EXCEPT ![i] = "unmounted"]
    /\ posts' = posts \cup {<< i, "leave" >>}
    /\ pcs' = [pcs EXCEPT ![i] = << >>]
    /\ conns' = [conns EXCEPT ![i] =
                   [p \in Clients |-> Released(conns[i], pcs[i], p)[p]]]
    /\ sinks' = [sinks EXCEPT ![i] =
                   [p \in Clients |-> Released(sinks[i], pcs[i], p)[p]]]
    /\ talkingUsers' = [talkingUsers EXCEPT ![i] = @ \ DOMAIN pcs[i]]
    /\ tasks' = [tasks EXCEPT ![i] = Outliving(@)]
    /\ liveStreams' = [liveStreams EXCEPT ![i] = @ \ MuteStops(i)]
    /\ localStream' = [localStream EXCEPT ![i] = 0]
    /\ channel' = [channel EXCEPT ![i] = FALSE]
    /\ subscribed' = [subscribed EXCEPT ![i] = FALSE]
    /\ net' = [pr \in Pairs |-> IF pr[2] = i THEN << >> ELSE net[pr]]
    /\ pres' = [pres EXCEPT ![i] = << >>]
    /\ vadLoops' = [vadLoops EXCEPT ![i] = Cancelled(@)]
    /\ UNCHANGED << api, doc, connectionStatus, isMuted, isAudioEnabled, activeUsers, streamSeq,
                    env, silence >>

----------------------------------------------------------------------------
\* The editors and PUT /api/sessions.

\* The participants who have the session open in the editor.
Editors == env.mounters

\* What a step of the document leaves alone.
DocFrame ==
    UNCHANGED << api, phase, connectionStatus, channel, subscribed, isMuted, isAudioEnabled,
                 activeUsers, talkingUsers, localStream, streamSeq, liveStreams, pcs,
                 conns, sinks, vadLoops, tasks, net, pres, posts, silence >>

\* debounce(fn, DEBOUNCE_DELAY)(): the call waits for the delay; whether a call
\* that still waits is cancelled by it depends on the hook.
Debounced(waiting, call, cancels) == (IF cancels THEN {} ELSE waiting) \cup {call}

\* The user of i changes the language, the code or the input; the effect on
\* [language, code, input] calls saveSession unless isReceivingUpdate is set.
Edit(i, f) ==
    /\ i \in Editors /\ env.edits[i] > 0
    /\ env' = [env EXCEPT !.edits[i] = @ - 1]
    /\ LET shown == [doc.content[i] EXCEPT ![f] = << i, env.edits[i] >>]
       IN  \E cancels \in BOOLEAN :
               doc' = [doc EXCEPT
                         !.content[i] = shown,
                         !.saves[i] = IF doc.receiving[i] THEN @
                                      ELSE Debounced(@, shown, cancels)]
    /\ DocFrame

\* The debounced call of saveSession runs: the PUT is sent with the values
\* the call was made with.
SaveSession(i) ==
    /\ \E c \in doc.saves[i] :
          doc' = [doc EXCEPT
                    !.saves[i] = @ \ {c},
                    !.puts = @ \cup {[sessionId |-> ThisSession, source |-> i,
                                       content |-> c, stage |-> "sent"]}]
    /\ UNCHANGED env
    /\ DocFrame

\* A PUT that stores the pending update before it looks the session up.
PutStoredUnseen ==
    /\ \E r \in doc.puts :
          /\ r.stage = "sent"
          /\ doc' = IF r.sessionId = Missing
                    THEN [doc EXCEPT !.puts = @ \ {r}, !.status = 400]
                    ELSE IF r.sessionId # ThisSession
                    THEN [doc EXCEPT !.puts = @ \ {r}, !.status = 404,
                                     !.pending = << r.content >>]
                    ELSE [doc EXCEPT
                            !.pending = << r.content >>,
                            !.cache = r.content,
                            !.puts = (@ \ {r}) \cup {[r EXCEPT !.stage = "stored"]}]
    /\ UNCHANGED env
    /\ DocFrame

\* PUT up to the write of the cache entry: 400 without a sessionId; 404 for a
\* session that neither redis nor the database has (the editors' session is
\* in both, no other session exists); else the pending update and the cache
\* entry are written.
PutStored ==
    /\ \E r \in doc.puts :
          /\ r.stage = "sent"
          /\ doc' = IF r.sessionId = Missing
                    THEN [doc EXCEPT !.puts = @ \ {r}, !.status = 400]
                    ELSE IF r.sessionId # ThisSession
                    THEN [doc EXCEPT !.puts = @ \ {r}, !.status = 404]
                    ELSE [doc EXCEPT
                            !.pending = << r.content >>,
                            !.cache = r.content,
                            !.puts = (@ \ {r}) \cup {[r EXCEPT !.stage = "stored"]}]
    /\ UNCHANGED env
    /\ DocFrame

\* PUT from pusherServer.trigger("code-updated") on: the event goes to every
\* subscriber of the session channel, its source included; the request that
\* sets the lock (nx, ex: LOCK_TTL) sets the timer of the database write.
PutBroadcast ==
    /\ \E r \in doc.puts :
          /\ r.stage = "stored"
          /\ doc' = [doc EXCEPT
                       !.puts = @ \ {r},
                       !.updates = [i \in Clients |->
                                      IF i \in Editors
                                      THEN Append(@[i], [source |-> r.source,
                                                         content |-> r.content])
                                      ELSE @[i]],
                       !.lock = IF @ = 0 THEN LOCK_TTL ELSE @,
                       !.timers = IF doc.lock = 0 THEN Append(@, BATCH_DELAY) ELSE @,
                       !.status = 200]
    /\ UNCHANGED env
    /\ DocFrame

\* A PUT request that does not come from an editor of the session: its
\* sessionId is the session's, another one, or absent.
PutSent(sessionId) ==
    /\ env.requests > 0
    /\ env' = [env EXCEPT !.requests = @ - 1]
    /\ doc' = [doc EXCEPT
                 !.puts = @ \cup {[sessionId |-> sessionId, source |-> "A",
                                    content |-> [Template EXCEPT
                                                   !["code"] = << "A", env.requests >>],
                                    stage |-> "sent"]}]
    /\ DocFrame

\* The timer of a PUT fires: the callback reads the pending update.
BackgroundRead ==
    /\ \E k \in 1..Len(doc.timers) :
          /\ doc.timers[k] = 0
          /\ doc' = [doc EXCEPT
                       !.timers = SubSeq(@, 1, k - 1) \o SubSeq(@, k + 1, Len(@)),
                       !.writes = @ \cup {[stage |-> "read", content |-> doc.pending]}]
    /\ UNCHANGED env
    /\ DocFrame

\* The callback goes on: prisma.session.update with the update it read, if
\* any, then redis.del of the pending update, then redis.del of the lock.
BackgroundWrite(w) ==
    /\ w \in doc.writes
    /\ doc' = IF w.stage = "read" /\ w.content # << >>
              THEN [doc EXCEPT !.db = w.content[1],
                               !.writes = (@ \ {w}) \cup {[w EXCEPT !.stage = "written"]}]
              ELSE IF w.stage = "written"
              THEN [doc EXCEPT !.pending = << >>,
                               !.writes = (@ \ {w}) \cup {[w EXCEPT !.stage = "cleared"]}]
              ELSE [doc EXCEPT !.lock = 0, !.writes = @ \ {w}]
    /\ UNCHANGED env
    /\ DocFrame

\* A second passes: the timers and the time to live of the lock run down; a
\* timer that is due fires before the next second.
SecondPasses ==
    /\ doc.lock > 0 \/ doc.timers # << >>
    /\ \A k \in 1..Len(doc.timers) : doc.timers[k] > 0
    /\ doc' = [doc EXCEPT
                 !.lock = IF @ > 0 THEN @ - 1 ELSE 0,
                 !.timers = [k \in 1..Len(@) |-> @[k] - 1]]
    /\ UNCHANGED env
    /\ DocFrame

\* channel.bind("code-updated"): an event of the client itself is skipped; any
\* other one replaces what the editor shows, sets isReceivingUpdate and starts
\* the timer that clears it.
CodeUpdated(d) ==
    /\ doc.updates[d] # << >>
    /\ LET m == Head(doc.updates[d])
       IN  IF m.source = d
           THEN doc' = [doc EXCEPT !.updates[d] = Tail(@)]
           ELSE doc' = [doc EXCEPT !.updates[d] = Tail(@),
                                   !.content[d] = m.content,
                                   !.applied[d] = Append(@, m.content),
                                   !.receiving[d] = TRUE,
                                   !.resets[d] = @ + 1]
    /\ UNCHANGED env
    /\ DocFrame

\* React renders what the code-updated handler has set, in a task of its own
\* after the handler, and runs the effect on [language, code, input]: it calls
\* saveSession unless isReceivingUpdate is set.
SaveEffect(d) ==
    /\ doc.applied[d] # << >>
    /\ \E cancels \in BOOLEAN :
          doc' = [doc EXCEPT
                    !.applied[d] = << >>,
                    !.saves[d] = IF doc.receiving[d] THEN @
                                 ELSE Debounced(@, doc.content[d], cancels)]
    /\ UNCHANGED env
    /\ DocFrame

\* The timer of the code-updated handler, UPDATE_ANIMATION_DURATION later.
\* The timers fire in the order they were set, and a render follows its
\* handler in less than that time: while events wait for their render only
\* the timer of an event that was rendered fires.
UpdateAnimationEnds(d) ==
    /\ doc.resets[d] > 0
    /\ doc' = [doc EXCEPT !.resets[d] = @ - 1, !.receiving[d] = FALSE]
    /\ IF doc.applied[d] # << >>
       THEN /\ doc.resets[d] > Len(doc.applied[d])
            /\ env.races > 0
            /\ env' = [env EXCEPT !.races = @ - 1]
       ELSE UNCHANGED env
    /\ DocFrame

----------------------------------------------------------------------------
\* The steps of the functions that wait outside a chain.

GetUserMediaResolved(i) == \E t \in BagToSet(tasks[i]) : GetUserMediaResolvedOf(i, t)
GetUserMediaRejected(i) == \E t \in BagToSet(tasks[i]) : GetUserMediaRejectedOf(i, t)
OnIceCandidate(i) == \E t \in BagToSet(tasks[i]) : OnIceCandidateOf(i, t)
OfferSent(i) == \E t \in BagToSet(tasks[i]) : OfferSentOf(i, t)
AnswerSent(i) == \E t \in BagToSet(tasks[i]) : AnswerSentOf(i, t)

Next ==
    \/ \E i \in Clients : Mount(i)
    \/ \E i \in Clients : SubscriptionSucceeded(i)
    \/ \E i \in Clients : SubscriptionError(i)
    \/ \E c \in Clients, a \in {"join", "leave"} : PresencePost(c, a)
    \/ \E d \in Clients, c \in Clients : VoiceUserJoined(d, c)
    \/ \E d \in Clients, c \in Clients : VoiceUserLeft(d, c)
    \/ \E i \in Clients : ToggleMute(i)
    \/ \E i \in Clients : GetUserMediaResolved(i)
    \/ \E i \in Clients : GetUserMediaRejected(i)
    \/ \E i \in Clients, p \in Clients : OfferCreated(i, p)
    \/ \E i \in Clients, p \in Clients : OfferSetLocal(i, p)
    \/ \E i \in Clients : OnIceCandidate(i)
    \/ \E i \in Clients : OfferSent(i)
    \/ \E pr \in Pairs : HandleOffer(pr[2], pr[1])
    \/ \E i \in Clients, p \in Clients : OfferRolledBack(i, p)
    \/ \E i \in Clients, p \in Clients : RemoteOfferSet(i, p)
    \/ \E i \in Clients, p \in Clients : AnswerCreated(i, p)
    \/ \E i \in Clients, p \in Clients : AnswerSetLocal(i, p)
    \/ \E i \in Clients : AnswerSent(i)
    \/ \E pr \in Pairs : HandleAnswer(pr[2], pr[1])
    \/ \E i \in Clients, p \in Clients : RemoteAnswerSet(i, p)
    \/ \E pr \in Pairs : HandleIceCandidate(pr[2], pr[1])
    \/ \E pr \in Pairs : HandleMute(pr[2], pr[1])
    \/ \E i \in Clients : Unmount(i)

Spec == Init /\ [][Next]_vars

----------------------------------------------------------------------------
\* Talking: A and B open the page, each clicks the mute button once, B is heard
\* speaking in up to MaxFrames frames of its voice-activity loop, and B may
\* close the page.
TalkSession ==
    [ mounters   |-> {"A", "B"},
      clicks     |-> [i \in Clients |-> IF i \in {"A", "B"} THEN 1 ELSE 0],
      candidates |-> [i \in Clients |-> 0],
      leavers    |-> {"B"},
      subErrors  |-> {},
      micErrors  |-> 0,
      frames     |-> [i \in Clients |-> IF i = "B" THEN MaxFrames ELSE 0],
      edits      |-> [i \in Clients |-> 0],
      requests   |-> 0,
      races      |-> 0 ]

InitTalk == Start(TalkSession)

NextTalk ==
    \/ \E i \in Clients : Mount(i)
    \/ \E i \in Clients : SubscriptionSucceeded(i)
    \/ \E c \in Clients, a \in {"join", "leave"} : PresencePost(c, a)
    \/ \E d \in Clients, c \in Clients : VoiceUserJoined(d, c)
    \/ \E d \in Clients, c \in Clients : VoiceUserLeft(d, c)
    \/ \E i \in Clients : ToggleMute(i)
    \/ \E i \in Clients : GetUserMediaResolved(i)
    \/ \E i \in Clients, p \in Clients : OfferCreated(i, p)
    \/ \E i \in Clients, p \in Clients : OfferSetLocal(i, p)
    \/ \E i \in Clients : OfferSent(i)
    \/ \E pr \in Pairs : HandleOffer(pr[2], pr[1])
    \/ \E i \in Clients, p \in Clients : OfferRolledBack(i, p)
    \/ \E i \in Clients, p \in Clients : RemoteOfferSet(i, p)
    \/ \E i \in Clients, p \in Clients : AnswerCreated(i, p)
    \/ \E i \in Clients, p \in Clients : AnswerSetLocal(i, p)
    \/ \E i \in Clients : AnswerSent(i)
    \/ \E pr \in Pairs : HandleAnswer(pr[2], pr[1])
    \/ \E i \in Clients, p \in Clients : RemoteAnswerSet(i, p)
    \/ \E i \in Clients : VoiceActivity(i)
    \/ \E pr \in Pairs : HandleSpeaking(pr[2], pr[1])
    \/ \E i \in Clients : Unmount(i)

SpecTalk == InitTalk /\ [][NextTalk]_vars

\* What the browsers and the relay do in the talk session: every delivery and
\* every settlement of a promise eventually happens; opening and leaving the
\* page, the mute button and speaking are up to the users.
TalkScheduled ==
    \/ \E i \in Clients : SubscriptionSucceeded(i)
    \/ \E c \in Clients, a \in {"join", "leave"} : PresencePost(c, a)
    \/ \E d \in Clients, c \in Clients : VoiceUserJoined(d, c)
    \/ \E d \in Clients, c \in Clients : VoiceUserLeft(d, c)
    \/ \E i \in Clients : GetUserMediaResolved(i)
    \/ \E i \in Clients, p \in Clients : OfferCreated(i, p)
    \/ \E i \in Clients, p \in Clients : OfferSetLocal(i, p)
    \/ \E i \in Clients : OfferSent(i)
    \/ \E pr \in Pairs : HandleOffer(pr[2], pr[1])
    \/ \E i \in Clients, p \in Clients : OfferRolledBack(i, p)
    \/ \E i \in Clients, p \in Clients : RemoteOfferSet(i, p)
    \/ \E i \in Clients, p \in Clients : AnswerCreated(i, p)
    \/ \E i \in Clients, p \in Clients : AnswerSetLocal(i, p)
    \/ \E i \in Clients : AnswerSent(i)
    \/ \E pr \in Pairs : HandleAnswer(pr[2], pr[1])
    \/ \E i \in Clients, p \in Clients : RemoteAnswerSet(i, p)
    \/ \E pr \in Pairs : HandleSpeaking(pr[2], pr[1])

SpecTalkFair == InitTalk /\ [][NextTalk]_vars /\ WF_vars(TalkScheduled)

----------------------------------------------------------------------------
\* Glare: A and B open the page and each clicks the mute button once; every
\* delivery, every settlement of a promise and every timer eventually happens.
GlareSession ==
    [ mounters   |-> {"A", "B"},
      clicks     |-> [i \in Clients |-> IF i \in {"A", "B"} THEN 1 ELSE 0],
      candidates |-> [i \in Clients |-> IF i = "A" THEN MaxCandidates ELSE 0],
      leavers    |-> {},
      subErrors  |-> {},
      micErrors  |-> 0,
      frames     |-> [i \in Clients |-> 0],
      edits      |-> [i \in Clients |-> 0],
      requests   |-> 0,
      races      |-> 0 ]

InitGlare == Start(GlareSession)

\* What the browsers and the relay do.
Scheduled ==
    \/ \E i \in Clients : SubscriptionSucceeded(i)
    \/ \E c \in Clients, a \in {"join", "leave"} : PresencePost(c, a)
    \/ \E d \in Clients, c \in Clients : VoiceUserJoined(d, c)
    \/ \E i \in Clients : GetUserMediaResolved(i)
    \/ \E i \in Clients, p \in Clients : OfferCreated(i, p)
    \/ \E i \in Clients, p \in Clients : OfferSetLocal(i, p)
    \/ \E i \in Clients : OnIceCandidate(i)
    \/ \E i \in Clients : OfferSent(i)
    \/ \E pr \in Pairs : HandleOffer(pr[2], pr[1])
    \/ \E i \in Clients, p \in Clients : OfferRolledBack(i, p)
    \/ \E i \in Clients, p \in Clients : RemoteOfferSet(i, p)
    \/ \E i \in Clients, p \in Clients : AnswerCreated(i, p)
    \/ \E i \in Clients, p \in Clients : AnswerSetLocal(i, p)
    \/ \E i \in Clients : AnswerSent(i)
    \/ \E pr \in Pairs : HandleAnswer(pr[2], pr[1])
    \/ \E i \in Clients, p \in Clients : RemoteAnswerSet(i, p)
    \/ \E pr \in Pairs : HandleIceCandidate(pr[2], pr[1])

\* What the users do.
Users ==
    \/ \E i \in Clients : Mount(i)
    \/ \E i \in Clients : ToggleMute(i)

NextGlare == Scheduled \/ Users

SpecGlare == InitGlare /\ [][NextGlare]_vars /\ WF_vars(Scheduled)

----------------------------------------------------------------------------
\* Time: the endpoint hears of a participant only through its POSTs; nothing in
\* the voice code measures the silence of a participant.  A and B open the
\* page, B may close it, and the seconds pass.
ClockSession ==
    [ mounters   |-> {"A", "B"},
      clicks     |-> [i \in Clients |-> 0],
      candidates |-> [i \in Clients |-> 0],
      leavers    |-> {"B"},
      subErrors  |-> {},
      micErrors  |-> 0,
      frames     |-> [i \in Clients |-> 0],
      edits      |-> [i \in Clients |-> 0],
      requests   |-> 0,
      races      |-> 0 ]

InitClock == Start(ClockSession)

\* The participants that have announced themselves to the endpoint.
Announcers == {d \in Clients : connectionStatus[d] = "connected"}

\* TickSeconds pass without a POST from any participant.
Tick ==
    /\ \E d \in Announcers : silence[d] < MaxSilence
    /\ silence' = [d \in Clients |->
                     IF d \in Announcers /\ silence[d] < MaxSilence
                     THEN silence[d] + TickSeconds
                     ELSE silence[d]]
    /\ UNCHANGED << api, doc, phase, connectionStatus, channel, subscribed, isMuted,
                    isAudioEnabled, activeUsers, talkingUsers, localStream, streamSeq,
                    liveStreams, pcs, conns, sinks, vadLoops, tasks, net, pres, posts,
                    env >>

NextClock ==
    \/ \E i \in Clients : Mount(i)
    \/ \E i \in Clients : SubscriptionSucceeded(i)
    \/ \E c \in Clients, a \in {"join", "leave"} : PresencePost(c, a)
    \/ \E d \in Clients, c \in Clients : VoiceUserJoined(d, c)
    \/ \E d \in Clients, c \in Clients : VoiceUserLeft(d, c)
    \/ \E i \in Clients : Unmount(i)
    \/ Tick

SpecClock == InitClock /\ [][NextClock]_vars

----------------------------------------------------------------------------
\* The mesh of three: A, B and C have opened the page and each has handled the
\* joins of the two others; A clicks the mute button twice (unmute, then mute),
\* A's connections trickle up to MaxCandidates ICE candidates, A is heard
\* speaking in up to MaxFrames frames, and B may close the page.  Every
\* client-signal of one instance reaches both others.
MeshSession ==
    [ mounters   |-> {"A", "B", "C"},
      clicks     |-> [i \in Clients |-> IF i = "A" THEN 2 ELSE 0],
      candidates |-> [i \in Clients |-> IF i = "A" THEN MaxCandidates ELSE 0],
      leavers    |-> {"B"},
      subErrors  |-> {},
      micErrors  |-> 0,
      frames     |-> [i \in Clients |-> IF i = "A" THEN MaxFrames ELSE 0],
      edits      |-> [i \in Clients |-> 0],
      requests   |-> 0,
      races      |-> 0 ]

\* The state in which the three instances have subscribed, announced their
\* join, and handled the voice-user-joined events of one another.
Joined(session) ==
    /\ phase = [i \in Clients |-> "mounted"]
    /\ connectionStatus = [i \in Clients |-> "connected"]
    /\ channel = [i \in Clients |-> TRUE]
    /\ subscribed = [i \in Clients |-> TRUE]
    /\ isMuted = [i \in Clients |-> TRUE]
    /\ isAudioEnabled = [i \in Clients |-> FALSE]
    /\ activeUsers = [i \in Clients |-> Others(i)]
    /\ talkingUsers = [i \in Clients |-> {}]
    /\ localStream = [i \in Clients |-> 0]
    /\ streamSeq = [i \in Clients |-> 0]
    /\ liveStreams = [i \in Clients |-> {}]
    /\ pcs = [i \in Clients |-> [p \in Others(i) |-> NewLink(0, MountIsAudioEnabled)]]
    /\ conns = [i \in Clients |-> [p \in Clients |-> IF p = i THEN 0 ELSE 1]]
    /\ sinks = [i \in Clients |-> [p \in Clients |-> IF p = i THEN 0 ELSE 1]]
    /\ vadLoops = [i \in Clients |-> 0]
    /\ tasks = [i \in Clients |-> EmptyBag]
    /\ net = [pr \in Pairs |-> << >>]
    /\ pres = [d \in Clients |-> << >>]
    /\ posts = {}
    /\ env = session
    /\ silence = [i \in Clients |-> 0]
    /\ doc = NewDocument
    /\ api = [NewApi EXCEPT !.status = 200]

InitMesh == Joined(MeshSession)

\* channel.bind("client-signal") for an event addressed to another instance:
\* the test of targetClientId fails and the handler does nothing.
IgnoreSignal(d, s) ==
    /\ subscribed[d] /\ net[<< s, d >>] # << >>
    /\ Head(net[<< s, d >>]).target # d
    /\ net' = [net EXCEPT ![<< s, d >>] = Tail(@)]
    /\ UNCHANGED << pcs, conns, sinks >>
    /\ DeliveryFrame

NextMesh ==
    \/ \E c \in Clients, a \in {"join", "leave"} : PresencePost(c, a)
    \/ \E d \in Clients, c \in Clients : VoiceUserLeft(d, c)
    \/ \E i \in Clients : ToggleMute(i)
    \/ \E i \in Clients : GetUserMediaResolved(i)
    \/ \E i \in Clients, p \in Clients : OfferCreated(i, p)
    \/ \E i \in Clients, p \in Clients : OfferSetLocal(i, p)
    \/ \E i \in Clients : OnIceCandidate(i)
    \/ \E i \in Clients : OfferSent(i)
    \/ \E pr \in Pairs : HandleOffer(pr[2], pr[1])
    \/ \E i \in Clients, p \in Clients : RemoteOfferSet(i, p)
    \/ \E i \in Clients, p \in Clients : AnswerCreated(i, p)
    \/ \E i \in Clients, p \in Clients : AnswerSetLocal(i, p)
    \/ \E i \in Clients : AnswerSent(i)
    \/ \E pr \in Pairs : HandleAnswer(pr[2], pr[1])
    \/ \E i \in Clients, p \in Clients : RemoteAnswerSet(i, p)
    \/ \E pr \in Pairs : HandleIceCandidate(pr[2], pr[1])
    \/ \E pr \in Pairs : HandleSpeaking(pr[2], pr[1])
    \/ \E pr \in Pairs : HandleMute(pr[2], pr[1])
    \/ \E pr \in Pairs : IgnoreSignal(pr[2], pr[1])
    \/ \E i \in Clients : VoiceActivity(i)
    \/ \E i \in Clients : Unmount(i)

SpecMesh == InitMesh /\ [][NextMesh]_vars

----------------------------------------------------------------------------
\* Glare in the mesh: the three instances had joined and C has just left the
\* page, its leave still on the way to the endpoint; A and B each click the
\* mute button once, so that each offers to the other and to C.
MeshGlareSession ==
    [ mounters   |-> {"A", "B", "C"},
      clicks     |-> [i \in Clients |-> IF i \in {"A", "B"} THEN 1 ELSE 0],
      candidates |-> [i \in Clients |-> 0],
      leavers    |-> {},
      subErrors  |-> {},
      micErrors  |-> 0,
      frames     |-> [i \in Clients |-> 0],
      edits      |-> [i \in Clients |-> 0],
      requests   |-> 0,
      races      |-> 0 ]

\* The joined mesh after the cleanup of C's mount effect.
InitMeshGlare ==
    /\ phase = [i \in Clients |-> IF i = "C" THEN "unmounted" ELSE "mounted"]
    /\ connectionStatus = [i \in Clients |-> "connected"]
    /\ channel = [i \in Clients |-> i # "C"]
    /\ subscribed = [i \in Clients |-> i # "C"]
    /\ isMuted = [i \in Clients |-> TRUE]
    /\ isAudioEnabled = [i \in Clients |-> FALSE]
    /\ activeUsers = [i \in Clients |-> Others(i)]
    /\ talkingUsers = [i \in Clients |-> {}]
    /\ localStream = [i \in Clients |-> 0]
    /\ streamSeq = [i \in Clients |-> 0]
    /\ liveStreams = [i \in Clients |-> {}]
    /\ pcs = [i \in Clients |->
                IF i = "C" THEN << >>
                ELSE [p \in Others(i) |-> NewLink(0, MountIsAudioEnabled)]]
    /\ conns = [i \in Clients |-> [p \in Clients |-> IF p = i \/ i = "C" THEN 0 ELSE 1]]
    /\ sinks = [i \in Clients |-> [p \in Clients |-> IF p = i \/ i = "C" THEN 0 ELSE 1]]
    /\ vadLoops = [i \in Clients |-> 0]
    /\ tasks = [i \in Clients |-> EmptyBag]
    /\ net = [pr \in Pairs |-> << >>]
    /\ pres = [d \in Clients |-> << >>]
    /\ posts = {<< "C", "leave" >>}
    /\ env = MeshGlareSession
    /\ silence = [i \in Clients |-> 0]
    /\ doc = NewDocument
    /\ api = [NewApi EXCEPT !.status = 200]

NextMeshGlare ==
    \/ \E c \in Clients, a \in {"join", "leave"} : PresencePost(c, a)
    \/ \E d \in Clients, c \in Clients : VoiceUserLeft(d, c)
    \/ \E i \in Clients : ToggleMute(i)
    \/ \E i \in Clients : GetUserMediaResolved(i)
    \/ \E i \in Clients, p \in Clients : OfferCreated(i, p)
    \/ \E i \in Clients, p \in Clients : OfferSetLocal(i, p)
    \/ \E i \in Clients : OfferSent(i)
    \/ \E pr \in Pairs : HandleOffer(pr[2], pr[1])
    \/ \E i \in Clients, p \in Clients : OfferRolledBack(i, p)
    \/ \E i \in Clients, p \in Clients : RemoteOfferSet(i, p)
    \/ \E i \in Clients, p \in Clients : AnswerCreated(i, p)
    \/ \E i \in Clients, p \in Clients : AnswerSetLocal(i, p)
    \/ \E i \in Clients : AnswerSent(i)
    \/ \E pr \in Pairs : HandleAnswer(pr[2], pr[1])
    \/ \E i \in Clients, p \in Clients : RemoteAnswerSet(i, p)
    \/ \E pr \in Pairs : IgnoreSignal(pr[2], pr[1])

SpecMeshGlare == InitMeshGlare /\ [][NextMeshGlare]_vars

----------------------------------------------------------------------------
\* The page: A and B open it and each clicks the mute button once; B's
\* subscription may fail, and B then has the Reconnect button; either may
\* leave, by a navigation that unmounts the component or by closing the tab.
PageSession ==
    [ mounters   |-> {"A", "B"},
      clicks     |-> [i \in Clients |-> IF i \in {"A", "B"} THEN 1 ELSE 0],
      candidates |-> [i \in Clients |-> 0],
      leavers    |-> {"A", "B"},
      subErrors  |-> {"B"},
      micErrors  |-> 0,
      frames     |-> [i \in Clients |-> 0],
      edits      |-> [i \in Clients |-> 0],
      requests   |-> 0,
      races      |-> 0 ]

InitPage == Start(PageSession)

\* The document of i is discarded by the browser: no cleanup of an effect
\* runs (the component registers no unload listener), every function of the
\* page is gone, its connections and captures are closed, and its socket to
\* the relay is closed; requests that left the page stay in flight.
Discarded(i) ==
    /\ pcs' = [pcs EXCEPT ![i] = << >>]
    /\ conns' = [conns EXCEPT ![i] = [p \in Clients |-> 0]]
    /\ sinks' = [sinks EXCEPT ![i] = [p \in Clients |-> 0]]
    /\ tasks' = [tasks EXCEPT ![i] = EmptyBag]
    /\ liveStreams' = [liveStreams EXCEPT ![i] = {}]
    /\ localStream' = [localStream EXCEPT ![i] = 0]
    /\ vadLoops' = [vadLoops EXCEPT ![i] = 0]
    /\ subscribed' = [subscribed EXCEPT ![i] = FALSE]
    /\ net' = [pr \in Pairs |-> IF pr[2] = i THEN << >> ELSE net[pr]]
    /\ pres' = [pres EXCEPT ![i] = << >>]
    /\ UNCHANGED << api, doc, posts, streamSeq, silence >>

\* The tab of i is closed, or the browser leaves the site.
PageUnload(i) ==
    /\ phase[i] = "mounted" /\ i \in env.leavers
    /\ phase' = [phase EXCEPT ![i] = "unmounted"]
    /\ channel' = [channel EXCEPT ![i] = FALSE]
    /\ Discarded(i)
    /\ UNCHANGED << connectionStatus, isMuted, isAudioEnabled, activeUsers,
                    talkingUsers, env >>

\* The Reconnect button, shown while connectionStatus is "error":
\* window.location.reload(), and the mount effect of the new document.
Reload(i) ==
    /\ phase[i] = "mounted" /\ connectionStatus[i] = "error"
    /\ env' = [env EXCEPT !.subErrors = @ \ {i}]
    /\ connectionStatus' = [connectionStatus EXCEPT ![i] = "connecting"]
    /\ channel' = [channel EXCEPT ![i] = TRUE]
    /\ isMuted' = [isMuted EXCEPT ![i] = TRUE]
    /\ isAudioEnabled' = [isAudioEnabled EXCEPT ![i] = FALSE]
    /\ activeUsers' = [activeUsers EXCEPT ![i] = {}]
    /\ talkingUsers' = [talkingUsers EXCEPT ![i] = {}]
    /\ Discarded(i)
    /\ UNCHANGED phase

NextPage ==
    \/ \E i \in Clients : Mount(i)
    \/ \E i \in Clients : SubscriptionSucceeded(i)
    \/ \E i \in Clients : SubscriptionError(i)
    \/ \E c \in Clients, a \in {"join", "leave"} : PresencePost(c, a)
    \/ \E d \in Clients, c \in Clients : VoiceUserJoined(d, c)
    \/ \E d \in Clients, c \in Clients : VoiceUserLeft(d, c)
    \/ \E i \in Clients : ToggleMute(i)
    \/ \E i \in Clients : GetUserMediaResolved(i)
    \/ \E i \in Clients, p \in Clients : OfferCreated(i, p)
    \/ \E i \in Clients, p \in Clients : OfferSetLocal(i, p)
    \/ \E i \in Clients : OfferSent(i)
    \/ \E pr \in Pairs : HandleOffer(pr[2], pr[1])
    \/ \E i \in Clients, p \in Clients : OfferRolledBack(i, p)
    \/ \E i \in Clients, p \in Clients : RemoteOfferSet(i, p)
    \/ \E i \in Clients, p \in Clients : AnswerCreated(i, p)
    \/ \E i \in Clients, p \in Clients : AnswerSetLocal(i, p)
    \/ \E i \in Clients : AnswerSent(i)
    \/ \E pr \in Pairs : HandleAnswer(pr[2], pr[1])
    \/ \E i \in Clients, p \in Clients : RemoteAnswerSet(i, p)
    \/ \E i \in Clients : Unmount(i)
    \/ \E i \in Clients : PageUnload(i)
    \/ \E i \in Clients : Reload(i)

SpecPage == InitPage /\ [][NextPage]_vars

----------------------------------------------------------------------------
\* The document: A and B have the session open in the editor; A edits up to
\* MaxEdits times and B once; up to MaxRaces times the timer of an earlier
\* code-updated event fires between the handler of a later one and its render.
DocSession ==
    [ mounters   |-> {"A", "B"},
      clicks     |-> [i \in Clients |-> 0],
      candidates |-> [i \in Clients |-> 0],
      leavers    |-> {},
      subErrors  |-> {},
      micErrors  |-> 0,
      frames     |-> [i \in Clients |-> 0],
      edits      |-> [i \in Clients |-> IF i = "A" THEN MaxEdits ELSE IF i = "B" THEN 1 ELSE 0],
      requests   |-> 0,
      races      |-> MaxRaces ]

InitDoc == Start(DocSession)

NextDoc ==
    \/ \E i \in Clients, f \in Fields : Edit(i, f)
    \/ \E i \in Clients : SaveSession(i)
    \/ PutStored
    \/ PutBroadcast
    \/ \E d \in Clients : CodeUpdated(d)
    \/ \E d \in Clients : SaveEffect(d)
    \/ \E d \in Clients : UpdateAnimationEnds(d)

SpecDoc == InitDoc /\ [][NextDoc]_vars

----------------------------------------------------------------------------
\* The loudspeaker button: A and B open the page; A clicks a button twice and
\* B once, each click on the microphone button or on the loudspeaker button.
AudioSession ==
    [ mounters   |-> {"A", "B"},
      clicks     |-> [i \in Clients |-> IF i = "A" THEN 2 ELSE IF i = "B" THEN 1 ELSE 0],
      candidates |-> [i \in Clients |-> 0],
      leavers    |-> {},
      subErrors  |-> {},
      micErrors  |-> 0,
      frames     |-> [i \in Clients |-> 0],
      edits      |-> [i \in Clients |-> 0],
      requests   |-> 0,
      races      |-> 0 ]

InitAudio == Start(AudioSession)

\* The isAudioEnabled effect: every audio element of the link map gets
\* muted = !isAudioEnabled of the new render (forcePlayAudio assigns the same).
AudioEffect(map, audioEnabled) ==
    [p \in DOMAIN map |-> [map[p] EXCEPT !.muted = ~audioEnabled]]

\* toggleAudio followed by the isAudioEnabled effect.
ToggleAudio(i) ==
    /\ phase[i] = "mounted" /\ env.clicks[i] > 0
    /\ env' = [env EXCEPT !.clicks[i] = @ - 1]
    /\ isAudioEnabled' = [isAudioEnabled EXCEPT ![i] = ~@]
    /\ pcs' = [pcs EXCEPT ![i] = AudioEffect(@, ~isAudioEnabled[i])]
    /\ UNCHANGED << api, doc, phase, connectionStatus, channel, subscribed, isMuted,
                    activeUsers, talkingUsers, localStream, streamSeq, liveStreams,
                    conns, sinks, vadLoops, tasks, net, pres, posts, silence >>

NextAudio ==
    \/ \E i \in Clients : Mount(i)
    \/ \E i \in Clients : SubscriptionSucceeded(i)
    \/ \E c \in Clients, a \in {"join", "leave"} : PresencePost(c, a)
    \/ \E d \in Clients, c \in Clients : VoiceUserJoined(d, c)
    \/ \E i \in Clients : ToggleMute(i)
    \/ \E i \in Clients : ToggleAudio(i)
    \/ \E i \in Clients : GetUserMediaResolved(i)
    \/ \E i \in Clients, p \in Clients : OfferCreated(i, p)
    \/ \E i \in Clients, p \in Clients : OfferSetLocal(i, p)
    \/ \E i \in Clients : OfferSent(i)
    \/ \E pr \in Pairs : HandleOffer(pr[2], pr[1])
    \/ \E i \in Clients, p \in Clients : OfferRolledBack(i, p)
    \/ \E i \in Clients, p \in Clients : RemoteOfferSet(i, p)
    \/ \E i \in Clients, p \in Clients : AnswerCreated(i, p)
    \/ \E i \in Clients, p \in Clients : AnswerSetLocal(i, p)
    \/ \E i \in Clients : AnswerSent(i)
    \/ \E pr \in Pairs : HandleAnswer(pr[2], pr[1])
    \/ \E i \in Clients, p \in Clients : RemoteAnswerSet(i, p)
    \/ \E pr \in Pairs : HandleMute(pr[2], pr[1])

SpecAudio == InitAudio /\ [][NextAudio]_vars

----------------------------------------------------------------------------
\* The voice presence endpoint under requests from anywhere: A and B open the
\* page, A clicks the mute button once, and MaxRequests further requests
\* reach the endpoint.
EndpointSession ==
    [ mounters   |-> {"A", "B"},
      clicks     |-> [i \in Clients |-> IF i = "A" THEN 1 ELSE 0],
      candidates |-> [i \in Clients |-> 0],
      leavers    |-> {},
      subErrors  |-> {},
      micErrors  |-> 0,
      frames     |-> [i \in Clients |-> 0],
      edits      |-> [i \in Clients |-> 0],
      requests   |-> MaxRequests,
      races      |-> 0 ]

InitEndpoint == Start(EndpointSession)

NextEndpoint ==
    \/ \E i \in Clients : Mount(i)
    \/ \E i \in Clients : SubscriptionSucceeded(i)
    \/ \E c \in Clients, a \in {"join", "leave"} : PresencePost(c, a)
    \/ \E r \in Requests : PresenceRequest(r)
    \/ \E d \in Clients, c \in Clients : VoiceUserJoined(d, c)
    \/ \E d \in Clients, c \in Clients : VoiceUserLeft(d, c)
    \/ \E i \in Clients : ToggleMute(i)
    \/ \E i \in Clients : GetUserMediaResolved(i)

SpecEndpoint == InitEndpoint /\ [][NextEndpoint]_vars

----------------------------------------------------------------------------
\* POST /api/sessions/presence and GET /api/sessions/cleanup: the editors of A
\* and B send MaxRequests presence requests between them, and the seconds pass.

\* redis.set(clientKey, Date.now(), { ex: PRESENCE_TTL }) on join and heartbeat,
\* redis.del(clientKey) on leave.
Stored(keys, c, action) ==
    IF action \in {"join", "heartbeat"} THEN [keys EXCEPT ![c] = 0]
    ELSE IF action = "leave" THEN [keys EXCEPT ![c] = None]
    ELSE keys

\* The loop over redis.keys(clientPattern): a key older than PRESENCE_TTL is
\* deleted, the others are counted.
Swept(keys) == [c \in Clients |-> IF keys[c] > PRESENCE_TTL THEN None ELSE keys[c]]
ActiveCount(keys) == Cardinality({c \in Clients : Swept(keys)[c] # None})

\* handlePresence(action) of the editor of c, served up to the count.
SessionPresencePost(c, action) ==
    /\ env.requests > 0
    /\ env' = [env EXCEPT !.requests = @ - 1]
    /\ LET keys == Stored(api.keys, c, action)
       IN  api' = [api EXCEPT
                     !.keys = Swept(keys),
                     !.heard = Stored(@, c, action),
                     !.counts = @ \cup {[by |-> c, count |-> ActiveCount(keys)]}]
    /\ UNCHANGED << doc, phase, connectionStatus, channel, subscribed, isMuted,
                    isAudioEnabled, activeUsers, talkingUsers, localStream, streamSeq,
                    liveStreams, pcs, conns, sinks, vadLoops, tasks, net, pres, posts,
                    silence >>

\* GET /api/sessions/cleanup, up to the count: it triggers presence-update only
\* for a session that has keys.
Cleanup ==
    /\ env.requests > 0
    /\ env' = [env EXCEPT !.requests = @ - 1]
    /\ api' = [api EXCEPT
                 !.keys = Swept(@),
                 !.counts = IF \E c \in Clients : api.keys[c] # None
                            THEN @ \cup {[by |-> "cron", count |-> ActiveCount(api.keys)]}
                            ELSE @]
    /\ UNCHANGED << doc, phase, connectionStatus, channel, subscribed, isMuted,
                    isAudioEnabled, activeUsers, talkingUsers, localStream, streamSeq,
                    liveStreams, pcs, conns, sinks, vadLoops, tasks, net, pres, posts,
                    silence >>

\* await pusherServer.trigger(`session-${sessionId}`, "presence-update", { count })
PresenceUpdate(t) ==
    /\ t \in api.counts
    /\ api' = [api EXCEPT !.counts = @ \ {t}, !.shown = t.count]
    /\ UNCHANGED << doc, phase, connectionStatus, channel, subscribed, isMuted,
                    isAudioEnabled, activeUsers, talkingUsers, localStream, streamSeq,
                    liveStreams, pcs, conns, sinks, vadLoops, tasks, net, pres, posts,
                    env, silence >>

\* TickSeconds pass while no request is being served; redis drops the keys
\* whose time to live is over.
SecondsPass ==
    /\ api.counts = {}
    /\ \E c \in Clients : api.heard[c] # None /\ api.heard[c] < MaxSilence
    /\ LET Older(age) == IF age = None \/ age >= MaxSilence THEN age
                         ELSE age + TickSeconds
       IN  api' = [api EXCEPT
                     !.keys = Swept([c \in Clients |-> Older(api.keys[c])]),
                     !.heard = [c \in Clients |-> Older(api.heard[c])]]
    /\ UNCHANGED << doc, phase, connectionStatus, channel, subscribed, isMuted,
                    isAudioEnabled, activeUsers, talkingUsers, localStream, streamSeq,
                    liveStreams, pcs, conns, sinks, vadLoops, tasks, net, pres, posts,
                    env, silence >>

NextCount ==
    \/ \E c \in Editors, a \in {"join", "heartbeat", "leave"} : SessionPresencePost(c, a)
    \/ Cleanup
    \/ \E t \in api.counts : PresenceUpdate(t)
    \/ SecondsPass

SpecCount == InitEndpoint /\ [][NextCount]_vars

----------------------------------------------------------------------------
\* PUT /api/sessions on its own: MaxRequests + 1 requests reach the handler,
\* and the seconds pass.  Every step that can be taken is taken in the end.
NextPut ==
    \/ \E id \in {ThisSession, OtherSession, Missing} : PutSent(id)
    \/ PutStored
    \/ PutBroadcast
    \/ BackgroundRead
    \/ \E w \in doc.writes : BackgroundWrite(w)
    \/ SecondPasses

SpecPut ==
    /\ Start([DocSession EXCEPT !.edits = [i \in Clients |-> 0],
                                !.requests = MaxRequests + 1])
    /\ [][NextPut]_vars
    /\ WF_vars(NextPut)

----------------------------------------------------------------------------
\* Properties.

\* The next client-signal of s that the handler of d takes is of the type.
NextSignal(d, s, type) ==
    /\ subscribed[d] /\ net[<< s, d >>] # << >>
    /\ Head(net[<< s, d >>]).target = d
    /\ Head(net[<< s, d >>]).type = type

\* The step is the handler of d taking that signal.
Handles(d, s, type) ==
    /\ NextSignal(d, s, type)
    /\ subscribed'[d]
    /\ net'[<< s, d >>] = Tail(net[<< s, d >>])

\* The step settles the operation at the head of the chain of the link of i to p.
Settles(i, p, kind, stage) ==
    /\ AtHead(i, p, kind, stage)
    /\ HasLink(pcs'[i], p)
    /\ pcs'[i][p].ops # pcs[i][p].ops
    /\ Len(pcs'[i][p].ops) <= Len(pcs[i][p].ops)

\* The link of i to p but for its chain.
Negotiation(map, p) == [map[p] EXCEPT !.ops = << >>]

Mounted(i) == phase[i] = "mounted"

\* What the delivery of an answer, and the setRemoteDescription it invokes, do.
AnswerStep ==
    \A pr \in Pairs :
        LET s == pr[1]
            d == pr[2]
        IN  /\ ( /\ Handles(d, s, "answer")
                 /\ ~(HasLink(pcs[d], s) /\ pcs[d][s].sig = HaveLocalOffer) )
               => pcs'[d] = pcs[d] /\ tasks'[d] = tasks[d]
            /\ Settles(d, s, "handleAnswer", "setRemote")
               => IF pcs[d][s].sig = HaveLocalOffer
                  THEN /\ pcs'[d][s].sig = Stable
                       /\ pcs'[d][s].currentRemote.type = "answer"
                  ELSE Negotiation(pcs'[d], s) = Negotiation(pcs[d], s)

\* C1: an answer is applied, and moves the link to stable, only when the
\* link is in have-local-offer: the delivery of an answer from a peer whose
\* link is in another state, or that has no link, changes neither the link map
\* nor the functions of the instance, and a setRemoteDescription(answer) that
\* settles on a link in another state changes nothing of the link.
AnswerOnlyInHaveLocalOffer == [][AnswerStep]_vars

\* An answer is about to be delivered to a link that is stable with an answer
\* already applied: the same answer a second time, or a stale one.
AnswerToStableLink ==
    \E pr \in Pairs :
        /\ NextSignal(pr[2], pr[1], "answer")
        /\ HasLink(pcs[pr[2]], pr[1])
        /\ pcs[pr[2]][pr[1]].sig = Stable
        /\ pcs[pr[2]][pr[1]].currentRemote.type = "answer"

\* What handleOffer does with an offer delivered in have-local-offer.
ResponderStep ==
    \A pr \in Pairs :
        LET s == pr[1]
            d == pr[2]
        IN  /\ ( /\ Handles(d, s, "offer")
                 /\ HasLink(pcs[d], s) /\ pcs[d][s].sig = HaveLocalOffer )
               => /\ HasLink(pcs'[d], s)
                  /\ pcs'[d][s].ops # << >>
                  /\ pcs'[d][s].ops[Len(pcs'[d][s].ops)].stage = "rollback"
            /\ ( /\ Settles(d, s, "handleOffer", "rollback")
                 /\ Head(pcs[d][s].ops).seen = HaveLocalOffer )
               => /\ pcs'[d][s].sig = Stable
                  /\ pcs'[d][s].pendingLocal = NoDescription
                  /\ Len(pcs'[d][s].ops) = Len(pcs[d][s].ops)
                  /\ pcs'[d][s].ops[Len(pcs'[d][s].ops)].stage = "setRemote"

\* C2: for an offer delivered while the link is in have-local-offer,
\* handleOffer invokes the rollback first, and the rollback succeeds: it leaves
\* the link stable with no local offer pending, and the function goes on to
\* apply the remote offer.
RollbackThenAnswer == [][ResponderStep]_vars

\* An offer of i is on its way to p.
OfferInFlight(i, p) ==
    \E k \in 1..Len(net[<< i, p >>]) : net[<< i, p >>][k].type = "offer"

\* A and B have each sent an offer that the other has not received yet.
Glare == OfferInFlight("A", "B") /\ OfferInFlight("B", "A")

BothStable ==
    /\ HasLink(pcs["A"], "B") /\ pcs["A"]["B"].sig = Stable
    /\ HasLink(pcs["B"], "A") /\ pcs["B"]["A"].sig = Stable

\* C3: when A and B have each sent an offer before receiving the other's, the
\* exchange ends with both links stable for good: neither link stays in
\* have-local-offer.
GlareResolves == [](Glare => <>[]BothStable)

\* The instance has processed everything that was delivered to it: no event
\* waits in front of its handlers and none of its functions is suspended.
Processed(d) ==
    /\ Mounted(d) /\ subscribed[d]
    /\ pres[d] = << >>
    /\ \A s \in Others(d) : net[<< s, d >>] = << >>
    /\ tasks[d] = EmptyBag
    /\ \A p \in DOMAIN pcs[d] : pcs[d][p].ops = << >>

\* C4: once an instance has processed every event delivered to it, the keys of
\* its link map are the participants whose most recent presence event at the
\* instance was a join.
LinksMatchPresence ==
    \A d \in Clients : Processed(d) => DOMAIN pcs[d] = activeUsers[d]

\* C5: an instance holds at most one RTCPeerConnection and at most one audio
\* container per peer id, exactly those of the entry of the link map, and
\* createPeerConnection for an id that has a link returns the map as it is and
\* allocates nothing.
AtMostOneLinkPerPeer ==
    \A i \in Clients, p \in Clients :
        /\ conns[i][p] = (IF HasLink(pcs[i], p) THEN 1 ELSE 0)
        /\ sinks[i][p] = (IF HasLink(pcs[i], p) THEN 1 ELSE 0)
        /\ HasLink(pcs[i], p)
           => /\ CreatePeerConnection(pcs[i], p, localStream[i], isAudioEnabled[i]) = pcs[i]
              /\ Allocated(conns[i], pcs[i], p) = conns[i]
              /\ Allocated(sinks[i], pcs[i], p) = sinks[i]

\* An offer is about to be delivered to an instance that has a link to its
\* sender and holds a capture stream the link was not made with.
OfferForExistingLink ==
    \E pr \in Pairs :
        /\ NextSignal(pr[2], pr[1], "offer")
        /\ HasLink(pcs[pr[2]], pr[1])
        /\ pcs[pr[2]][pr[1]] # NewLink(localStream[pr[2]], isAudioEnabled[pr[2]])

\* The next presence event in front of the handlers of d is the leave of c.
NextLeft(d, c) ==
    /\ subscribed[d] /\ pres[d] # << >>
    /\ Head(pres[d]) = [event |-> "voice-user-left", clientId |-> c]
    /\ c # d

\* What the handler of voice-user-left does.
LeftStep ==
    \A d \in Clients, c \in Clients :
        ( /\ NextLeft(d, c) /\ HasLink(pcs[d], c)
          /\ subscribed'[d] /\ pres'[d] = Tail(pres[d]) )
        => /\ ~HasLink(pcs'[d], c)
           /\ conns'[d][c] = 0
           /\ sinks'[d][c] = 0
           /\ c \notin activeUsers'[d]
           /\ c \notin talkingUsers'[d]
           /\ \A t \in BagToSet(tasks'[d]) : t.peer = c => t.closed

\* C6: the handler of voice-user-left for a participant the instance has a
\* link to, in whatever signaling state, closes the connection, removes the
\* audio container, deletes the entry of the map, and removes the participant
\* from the active and from the talking users, all in the one step.
LeaveClosesLink == [][LeftStep]_vars

\* The leave of a talking participant is about to be handled by an instance
\* whose link to it is in the middle of a negotiation.
LeaveDuringNegotiation ==
    \E d \in Clients, c \in Clients :
        /\ NextLeft(d, c) /\ HasLink(pcs[d], c)
        /\ pcs[d][c].sig # Stable
        /\ c \in talkingUsers[d] /\ c \in activeUsers[d]

\* What the delivery of an ICE candidate does.
CandidateStep ==
    \A pr \in Pairs :
        LET s == pr[1]
            d == pr[2]
        IN  (Handles(d, s, "candidate") /\ ~HasLink(pcs[d], s))
            => /\ pcs'[d] = pcs[d]
               /\ conns'[d] = conns[d] /\ sinks'[d] = sinks[d]
               /\ tasks'[d] = tasks[d]

\* C7: an ICE candidate from a peer that has no entry in the link map is
\* dropped: the map stays as it is, and no connection or audio container is
\* made.
CandidateWithoutLinkDropped == [][CandidateStep]_vars

\* An ICE candidate is about to be delivered to an instance that has no link
\* to its sender.
CandidateWithoutLink ==
    \E pr \in Pairs :
        NextSignal(pr[2], pr[1], "candidate") /\ ~HasLink(pcs[pr[2]], pr[1])

\* C8: once the endpoint has heard nothing of a participant for more than
\* PRESENCE_TTL seconds, no other instance has it among its active users or
\* has a link to it.
SilentParticipantRemoved ==
    \A i \in Clients, d \in Clients :
        (i # d /\ Mounted(i) /\ silence[d] > PRESENCE_TTL)
        => d \notin activeUsers[i] /\ ~HasLink(pcs[i], d)

\* C9: while the user is muted, no link has a local audio track on a sender,
\* no captured track is live, and the instance holds no capture stream.
MutedReleasesCapture ==
    \A i \in Clients :
        (Mounted(i) /\ isMuted[i])
        => /\ \A p \in DOMAIN pcs[i] : pcs[i][p].senders = {}
           /\ liveStreams[i] = {}
           /\ localStream[i] = 0

\* The participant is in the voice session: subscribed, and its join has been
\* announced to everyone who was subscribed at the time.
Present(d) ==
    /\ Mounted(d) /\ subscribed[d]
    /\ << d, "join" >> \notin posts
    /\ \A i \in Clients : \A k \in 1..Len(pres[i]) : pres[i][k].clientId # d

\* What the acquisition of the microphone does.
UnmuteStep ==
    \A i \in Clients, p \in Clients :
        ( /\ i # p /\ Present(i) /\ Present(p)
          /\ streamSeq'[i] = streamSeq[i] + 1 )
        => /\ HasLink(pcs'[i], p)
           /\ \E k \in 1..Len(pcs'[i][p].ops) : pcs'[i][p].ops[k].kind = "offer"

\* C10: when A and B are both in the voice session and the microphone of one
\* is acquired after an unmute, that instance has a link to the other and has
\* a createOffer under way on it.
UnmuteOffersToPresent == [][UnmuteStep]_vars

\* The next presence event in front of the handlers of d is the join of c.
NextJoined(d, c) ==
    /\ subscribed[d] /\ pres[d] # << >>
    /\ Head(pres[d]) = [event |-> "voice-user-joined", clientId |-> c]
    /\ c # d

\* What the handler of voice-user-joined does for an unmuted instance.
JoinStep ==
    \A d \in Clients, c \in Clients :
        ( /\ NextJoined(d, c) /\ ~HasLink(pcs[d], c)
          /\ ~isMuted[d] /\ localStream[d] # 0
          /\ subscribed'[d] /\ pres'[d] = Tail(pres[d]) )
        => /\ HasLink(pcs'[d], c)
           /\ \E t \in BagToSet(tasks'[d]) : t.kind = "settle" /\ t.peer = c

\* C11: the handler of voice-user-joined, run for a participant the instance
\* has no link to while the user is unmuted and a capture stream is held,
\* creates the link and sets the settle timer that will send the offer.
JoinWhileUnmutedOffers == [][JoinStep]_vars

\* The last operation invoked on the link of i to p.
LastOp(map, p) == map[p].ops[Len(map[p].ops)]

\* The step removes the function t from those of i that wait outside a chain.
Leaves(i, t) ==
    /\ t \in BagToSet(tasks[i])
    /\ tasks'[i] = tasks[i] (-) One(t)

\* What a successful unmute does with the links that exist: the swap of the
\* senders and the call of createAndSendOffer, then the createOffer and the
\* setLocalDescription of that call, then its sendSignal.
RenegotiateStep ==
    \A i \in Clients, p \in Clients :
        /\ (Mounted(i) /\ streamSeq'[i] = streamSeq[i] + 1 /\ HasLink(pcs[i], p))
           => /\ HasLink(pcs'[i], p)
              /\ pcs'[i][p].senders = {streamSeq'[i]}
              /\ Len(pcs'[i][p].ops) = Len(pcs[i][p].ops) + 1
              /\ LastOp(pcs'[i], p) = OfferTask(p)
        /\ Settles(i, p, "offer", "createOffer")
           => /\ Len(pcs'[i][p].ops) = Len(pcs[i][p].ops)
              /\ LastOp(pcs'[i], p).kind = "offer"
              /\ LastOp(pcs'[i], p).stage = "setLocal"
        /\ Settles(i, p, "offer", "setLocal")
           => /\ pcs'[i][p].sig = HaveLocalOffer
              /\ \E t \in BagToSet(tasks'[i]) :
                    t.kind = "offer" /\ t.stage = "gather" /\ t.peer = p
        /\ \A t \in BagToSet(tasks[i]) :
              ( /\ t.kind = "offer" /\ t.stage = "gather" /\ t.peer = p
                /\ Holds(i, t) /\ Leaves(i, t) /\ phase'[i] = "mounted"
                /\ channel[i] /\ subscribed[i] /\ subscribed[p] )
              => /\ Len(net'[<< i, p >>]) = Len(net[<< i, p >>]) + 1
                 /\ net'[<< i, p >>][Len(net'[<< i, p >>])].type = "offer"

\* C12: on a successful unmute every link that exists has its audio sender
\* replaced by the new track and createAndSendOffer called for it, and that
\* call goes through whatever the signaling state of the link: its createOffer
\* and its setLocalDescription succeed, and what it sends to the peer is an
\* offer.
UnmuteRenegotiatesEveryLink == [][RenegotiateStep]_vars

\* What is left of a link once closePeerConnection ran on it: the handler that
\* closes it releases its connection and its audio container, and a function
\* that was waiting for the ICE gathering of the closed connection sends
\* nothing when it resumes.
TeardownStep ==
    \A d \in Clients, c \in Clients :
        /\ ( /\ NextLeft(d, c) /\ HasLink(pcs[d], c)
             /\ subscribed'[d] /\ pres'[d] = Tail(pres[d]) )
           => conns'[d][c] = 0 /\ sinks'[d][c] = 0
        /\ \A t \in BagToSet(tasks[d]) :
              ( /\ t.peer = c /\ t.closed /\ t.stage = "gather"
                /\ Leaves(d, t) /\ phase'[d] = "mounted" )
              => net' = net

\* C13: once a link is torn down nothing of it stays live: its connection and
\* its audio container are released by the step that closes it, and no
\* function that was waiting for its ICE gathering sends an offer or an answer
\* afterwards.
TornDownLinkIsSilent == [][TeardownStep]_vars

\* The next client-signal of s in front of the handler of d is addressed to
\* another instance.
NextForeign(d, s) ==
    /\ subscribed[d] /\ net[<< s, d >>] # << >>
    /\ Head(net[<< s, d >>]).target # d

\* What the client-signal handler does with an event addressed to another
\* instance.
ForeignStep ==
    \A pr \in Pairs :
        LET s == pr[1]
            d == pr[2]
        IN  ( /\ NextForeign(d, s)
              /\ subscribed'[d] /\ net'[<< s, d >>] = Tail(net[<< s, d >>]) )
            => /\ pcs' = pcs /\ conns' = conns /\ sinks' = sinks /\ tasks' = tasks
               /\ talkingUsers' = talkingUsers /\ activeUsers' = activeUsers
               /\ localStream' = localStream /\ isMuted' = isMuted
               /\ \A qr \in Pairs : qr # pr => net'[qr] = net[qr]

\* C14: a client-signal addressed to another instance changes nothing: no link
\* is made or changed, the talking and the active users stay as they are, and
\* nothing is sent.
ForeignSignalIgnored == [][ForeignStep]_vars

\* An offer addressed to another instance is about to be taken by an instance
\* that has a stable link to its sender.
ForeignOffer ==
    \E pr \in Pairs :
        /\ NextForeign(pr[2], pr[1])
        /\ Head(net[pr]).type = "offer"
        /\ HasLink(pcs[pr[2]], pr[1])
        /\ pcs[pr[2]][pr[1]].sig = Stable

\* C15: no ICE candidate travels as a client-signal of its own: every
\* client-signal in flight that is part of a negotiation is an offer or an
\* answer.
NoStandaloneCandidate ==
    \A pr \in Pairs : \A k \in 1..Len(net[pr]) : net[pr][k].type # "candidate"

\* What happens to the candidates of a link: one that is delivered before the
\* link has a remote description leaves the link and the functions of the
\* instance as they were, and the candidates applied to a link change only by
\* the delivery of a candidate to a link that has a remote description.
EarlyCandidateStep ==
    \A pr \in Pairs :
        LET s == pr[1]
            d == pr[2]
        IN  /\ ( /\ Handles(d, s, "candidate")
                 /\ HasLink(pcs[d], s) /\ ~HasRemoteDescription(pcs[d][s]) )
               => pcs'[d] = pcs[d] /\ tasks'[d] = tasks[d]
            /\ ( /\ HasLink(pcs[d], s) /\ HasLink(pcs'[d], s)
                 /\ pcs'[d][s].ice # pcs[d][s].ice )
               => /\ Handles(d, s, "candidate")
                  /\ HasRemoteDescription(pcs[d][s])
                  /\ pcs'[d][s].ice = pcs[d][s].ice + 1

\* C16: an ICE candidate delivered for a link that has no remote description
\* yet is dropped: the link, its signaling state included, is unchanged,
\* nothing is kept of the candidate, and no later step applies it.
EarlyCandidateDropped == [][EarlyCandidateStep]_vars

\* An ICE candidate is about to be delivered to an instance whose link to the
\* sender has no remote description.
EarlyCandidate ==
    \E pr \in Pairs :
        /\ NextSignal(pr[2], pr[1], "candidate")
        /\ HasLink(pcs[pr[2]], pr[1])
        /\ ~HasRemoteDescription(pcs[pr[2]][pr[1]])

\* The step drops the function at the head of the chain of the link of i to p:
\* the operation it awaited rejected, and the function ends in its catch.
Fails(i, p, kind, stage) ==
    /\ Settles(i, p, kind, stage)
    /\ pcs'[i][p].ops = Tail(pcs[i][p].ops)
    /\ tasks'[i] = tasks[i]

\* What a failure of handleOffer or handleAnswer leaves behind: a handleOffer
\* that rolled back the local offer of a link in have-local-offer and then
\* fails leaves the link in have-local-offer with an offer pending, and a
\* setRemoteDescription(answer) that rejects leaves the link as it was.
FailureStep ==
    \A i \in Clients, p \in Clients :
        /\ \A stage \in {"setRemote", "createAnswer", "setLocal"} :
              ( /\ Fails(i, p, "handleOffer", stage)
                /\ Head(pcs[i][p].ops).seen = HaveLocalOffer )
              => /\ pcs'[i][p].sig = HaveLocalOffer
                 /\ pcs'[i][p].pendingLocal.type = "offer"
        /\ ( /\ Settles(i, p, "handleAnswer", "setRemote")
             /\ ~CanSetRemoteAnswer(pcs[i][p]) )
           => Negotiation(pcs'[i], p) = Negotiation(pcs[i], p)

\* C17: when the processing of an offer or of an answer fails, the link is
\* left in the negotiation state it had when the message was delivered: a
\* handleOffer that fails after its rollback does not leave the link rolled
\* back, and an answer that cannot be applied changes nothing of the link.
FailureLeavesLinkAsItWas == [][FailureStep]_vars

\* The user of i becomes muted in the step.
Mutes(i) == Mounted(i) /\ ~isMuted[i] /\ isMuted'[i]

\* The step puts a mute signal for every peer i has a link to on the channel.
MuteSent(i) ==
    \A r \in Others(i) :
        (channel[i] /\ subscribed[i] /\ subscribed[r])
        => net'[<< i, r >>] = net[<< i, r >>] \o SignalsTo(i, DOMAIN pcs[i], "mute")

\* What the speaking and mute signals leave alone: the links, the link map and
\* the active users, at the instance that receives one, at the instance whose
\* voice-activity loop sends one, and at the instance that becomes muted.
SignalFrameStep ==
    /\ \A pr \in Pairs :
          LET s == pr[1]
              d == pr[2]
          IN  /\ Handles(d, s, "speaking")
                 => /\ pcs' = pcs /\ conns' = conns /\ sinks' = sinks
                    /\ activeUsers' = activeUsers
                    /\ talkingUsers' = [talkingUsers EXCEPT ![d] = @ \cup {s}]
              /\ Handles(d, s, "mute")
                 => /\ pcs' = pcs /\ conns' = conns /\ sinks' = sinks
                    /\ activeUsers' = activeUsers /\ talkingUsers' = talkingUsers
    /\ \A i \in Clients :
          /\ env'.frames[i] < env.frames[i]
             => /\ pcs' = pcs /\ conns' = conns /\ sinks' = sinks
                /\ activeUsers' = activeUsers /\ talkingUsers' = talkingUsers
          /\ Mutes(i)
             => /\ pcs' = pcs /\ conns' = conns /\ sinks' = sinks
                /\ activeUsers' = activeUsers /\ talkingUsers' = talkingUsers

\* The statement of C18 as written: the speaking and mute signals leave the
\* links, the link map and the active users alone, and every local mute sends
\* a mute signal to every peer the instance has a link to.
EveryMuteIsSignalled ==
    [][SignalFrameStep /\ \A i \in Clients : Mutes(i) => MuteSent(i)]_vars

\* C18: receiving a speaking or a mute signal, sending speaking signals from
\* the voice-activity loop, and muting change no link, nor the link map, nor
\* the active users; a received speaking signal adds its sender to the talking
\* users and changes nothing else; a local mute sends a mute signal to every
\* peer the instance has a link to when the instance holds a capture stream,
\* and sends nothing when it holds none.
MuteOfCaptureIsSignalled ==
    [][ /\ SignalFrameStep
        /\ \A i \in Clients :
              Mutes(i) => IF localStream[i] # 0 THEN MuteSent(i) ELSE net' = net ]_vars

\* A speaking signal is about to be delivered to an instance whose link to the
\* sender is in the middle of a negotiation.
SpeakingDuringNegotiation ==
    \E pr \in Pairs :
        /\ NextSignal(pr[2], pr[1], "speaking")
        /\ HasLink(pcs[pr[2]], pr[1])
        /\ pcs[pr[2]][pr[1]].sig # Stable

\* C19: a participant shown as talking stops being shown as talking once its
\* speaking signals stop, with no speaking signal carrying false and without
\* the participant leaving.
TalkingTimesOut ==
    \A pr \in Pairs :
        (pr[1] \in talkingUsers[pr[2]]) ~> (pr[1] \notin talkingUsers[pr[2]])

\* getUserMedia of an initializeLocalStream of i rejects in the step.
Rejects(i) == env'.micErrors < env.micErrors /\ tasks'[i] # tasks[i]

\* What the catch block of initializeLocalStream does, and what it does not.
MicFailureStep ==
    \A i \in Clients :
        Rejects(i)
        => /\ Mounted(i) => isMuted'[i]
           /\ streamSeq' = streamSeq /\ vadLoops' = vadLoops
           /\ localStream'[i] \in {0, localStream[i]}
           /\ liveStreams'[i] \subseteq liveStreams[i]
           /\ DOMAIN pcs'[i] = DOMAIN pcs[i]
           /\ \A p \in DOMAIN pcs[i] :
                 /\ pcs'[i][p].senders = pcs[i][p].senders
                 /\ pcs'[i][p].ops = pcs[i][p].ops
                 /\ Negotiation(pcs'[i], p) = Negotiation(pcs[i], p)
           /\ \A r \in Others(i) :
                 /\ Len(net'[<< i, r >>]) >= Len(net[<< i, r >>])
                 /\ \A k \in 1..Len(net'[<< i, r >>]) :
                       IF k <= Len(net[<< i, r >>])
                       THEN net'[<< i, r >>][k] = net[<< i, r >>][k]
                       ELSE net'[<< i, r >>][k].type = "mute"
           /\ \A u \in BagToSet(tasks'[i]) :
                 /\ u \in BagToSet(tasks[i])
                 /\ CopiesIn(u, tasks'[i]) <= CopiesIn(u, tasks[i])
           /\ \E t \in BagToSet(tasks[i]) :
                 IsInit(t) /\ tasks'[i] = tasks[i] (-) One(t)

\* C20: when getUserMedia rejects, the instance is muted afterwards, no stream
\* is stored and no capture starts, no link gets a sender, an operation or a
\* new description, no link is created, nothing but mute signals is sent, and
\* the failed initializeLocalStream is gone with no new one started.
MicFailureForcesMute == [][MicFailureStep]_vars

\* getUserMedia has rejected for A, the only user who tried: A opened the page,
\* unmuted once, holds a link to B, and is muted again with no stream and no
\* initializeLocalStream left.
MicFailed ==
    /\ Mounted("A") /\ isMuted["A"]
    /\ env.clicks["A"] = Session.clicks["A"] - 1
    /\ env.clicks["B"] = Session.clicks["B"]
    /\ env.micErrors = Session.micErrors - 1
    /\ localStream["A"] = 0
    /\ \A t \in BagToSet(tasks["A"]) : ~IsInit(t)
    /\ HasLink(pcs["A"], "B")

\* The page of i is reloaded in the step.
Reloads(i) ==
    /\ connectionStatus[i] = "error" /\ connectionStatus'[i] = "connecting"
    /\ phase'[i] = "mounted" /\ i \notin env'.subErrors

\* How connectionStatus changes.
StatusStep ==
    \A i \in Clients :
        /\ (connectionStatus'[i] = "connected" /\ connectionStatus[i] # "connected")
           => /\ connectionStatus[i] = "connecting"
              /\ ~subscribed[i] /\ subscribed'[i]
        /\ (connectionStatus'[i] = "error" /\ connectionStatus[i] # "error")
           => /\ connectionStatus[i] = "connecting"
              /\ ~subscribed[i] /\ ~subscribed'[i]
              /\ i \in env.subErrors
        /\ connectionStatus[i] = "error"
           => \/ Reloads(i)
              \/ /\ connectionStatus'[i] = "error"
                 /\ ~subscribed'[i]
                 /\ channel'[i] => channel[i]
                 /\ << i, "join" >> \in posts' => << i, "join" >> \in posts

\* C21: connectionStatus is "connecting" until the subscription is settled; it
\* becomes "connected" only in the step in which the subscription succeeds and
\* "error" only in the step in which it fails; once "error", the instance does
\* not subscribe again and announces no join, and the status stays "error"
\* until the user reloads the page with the Reconnect button.
StatusFollowsSubscription ==
    /\ [](\A i \in Clients : phase[i] = "idle" => connectionStatus[i] = "connecting")
    /\ [][StatusStep]_vars

\* B's subscription failed while A's succeeded, and B's page is still open.
SubscriptionFailed ==
    /\ Mounted("B") /\ connectionStatus["B"] = "error"
    /\ connectionStatus["A"] = "connected"
    /\ posts = {}

\* closePeerConnection(x) runs at d while the component stays mounted.
Closes(d, x) ==
    /\ Mounted(d) /\ phase'[d] = "mounted"
    /\ HasLink(pcs[d], x) /\ ~HasLink(pcs'[d], x)

\* An operation of the link of d to x rejects, and the function that awaited
\* it leaves through its catch block.
FailsOn(d, x) ==
    \/ \E stage \in {"rollback", "setRemote", "createAnswer", "setLocal"} :
          Fails(d, x, "handleOffer", stage)
    \/ \E stage \in {"createOffer", "setLocal"} : Fails(d, x, "offer", stage)
    \/ Settles(d, x, "handleAnswer", "setRemote") /\ ~CanSetRemoteAnswer(pcs[d][x])

\* The links of d to the peers other than x, and the links of the other
\* instances, are after the step what they were before it.
OthersUntouched(d, x) ==
    /\ \A y \in DOMAIN pcs[d] \ {x} :
          /\ HasLink(pcs'[d], y)
          /\ pcs'[d][y] = pcs[d][y]
          /\ sinks'[d][y] = sinks[d][y]
          /\ conns'[d][y] = conns[d][y]
    /\ \A e \in Others(d) : pcs'[e] = pcs[e] /\ sinks'[e] = sinks[e] /\ conns'[e] = conns[e]

\* C22: closing the link to a peer x, or the failure of a negotiation on the
\* link to x, leaves every link to another peer as it was: its negotiation
\* state, its audio sink and its entry of the map.
FailureStaysOnItsLink ==
    [][\A d \in Clients, x \in Clients :
          (Closes(d, x) \/ FailsOn(d, x)) => OthersUntouched(d, x)]_vars

\* A negotiation on the link of d to x is about to fail while the link of d
\* to another peer is in the middle of a negotiation.
FailureBesideNegotiation ==
    \E d \in Clients, x \in Clients, y \in Clients :
        /\ x # y /\ HasLink(pcs[d], x) /\ HasLink(pcs[d], y)
        /\ \/ AtHead(d, x, "handleOffer", "setLocal") /\ ~CanSetLocalAnswer(pcs[d][x])
           \/ AtHead(d, x, "handleOffer", "setRemote") /\ pcs[d][x].sig = HaveRemoteOffer
        /\ pcs[d][y].sig # Stable

\* A link is about to be closed while the link to another peer is in the
\* middle of a negotiation.
CloseBesideNegotiation ==
    \E d \in Clients, x \in Clients, y \in Clients :
        /\ x # y /\ HasLink(pcs[d], x) /\ HasLink(pcs[d], y)
        /\ NextLeft(d, x)
        /\ pcs[d][y].sig # Stable

\* The instance i, which announced its join, goes away in the step.
GoesAway(i) ==
    /\ Mounted(i) /\ connectionStatus[i] = "connected"
    /\ phase'[i] = "unmounted"

\* C23: an instance that announced a join and goes away, by the unmount of the
\* component or by the unload of the page, posts a leave; its links are
\* closed and its map is empty, its capture stream is stopped and dropped, and
\* it is unsubscribed from the channel.
GoingAwayAnnouncesLeave ==
    [][\A i \in Clients :
          GoesAway(i)
          => /\ << i, "leave" >> \in posts'
             /\ pcs'[i] = << >>
             /\ \A p \in Clients : conns'[i][p] = 0 /\ sinks'[i][p] = 0
             /\ localStream'[i] = 0 /\ localStream[i] \notin liveStreams'[i]
             /\ ~subscribed'[i] /\ ~channel'[i]]_vars

\* A and B have subscribed and the endpoint has processed the join of each.
BothJoined ==
    \A i \in {"A", "B"} :
        /\ Mounted(i) /\ connectionStatus[i] = "connected"
        /\ << i, "join" >> \notin posts

\* Each of A and B holds a link for the other and lists the other as active.
PairLinked ==
    /\ HasLink(pcs["A"], "B") /\ HasLink(pcs["B"], "A")
    /\ "B" \in activeUsers["A"] /\ "A" \in activeUsers["B"]

\* C24: once A and B have both joined, in either order, and neither leaves,
\* the time comes when each holds a link for the other and lists the other
\* as active.
JoinedPairGetsLinked == BothJoined ~> PairLinked

DocumentQuiet ==
    /\ \A i \in Clients : doc.saves[i] = {} /\ doc.updates[i] = << >>
    /\ \A i \in Clients : doc.applied[i] = << >>
    /\ doc.puts = {}

\* C26: when the edits have stopped and every PUT and every code-updated event
\* has been delivered, every editor shows the language, the code and the input
\* of the last PUT the server stored.
EditorsConverge ==
    DocumentQuiet => \A i \in Editors : doc.content[i] = doc.cache

\* What handleOffer does about the rollback: it invokes one exactly when the
\* link has a local offer pending, and an offer that arrives while the remote
\* offer of an earlier one is applied leaves that remote offer in place.
RollbackStep ==
    \A pr \in Pairs :
        LET s == pr[1]
            d == pr[2]
        IN  /\ Handles(d, s, "offer")
               => /\ HasLink(pcs'[d], s) /\ pcs'[d][s].ops # << >>
                  /\ pcs'[d][s].ops[Len(pcs'[d][s].ops)].stage = "rollback"
                     <=> (HasLink(pcs[d], s) /\ pcs[d][s].sig = HaveLocalOffer)
            /\ ( /\ Settles(d, s, "handleOffer", "rollback")
                 /\ pcs[d][s].sig = HaveRemoteOffer )
               => pcs'[d][s].pendingRemote = pcs[d][s].pendingRemote

\* C27: handleOffer rolls back exactly when the link is in have-local-offer;
\* of two offers of one peer whose handling interleaves, the second does not
\* roll back the remote offer the first has applied.
RollbackOnlyOfLocalOffer == [][RollbackStep]_vars

\* C28: while the user is muted and no initializeLocalStream is waiting for
\* getUserMedia, the instance holds no capture stream and no link has a live
\* local track on a sender, also when the mute came while the getUserMedia of
\* the preceding unmute was pending.
MutedAtRestHoldsNoCapture ==
    \A i \in Clients :
        ( /\ Mounted(i) /\ isMuted[i]
          /\ \A t \in BagToSet(tasks[i]) : ~IsInit(t) )
        => /\ localStream[i] = 0
           /\ \A p \in DOMAIN pcs[i] : pcs[i][p].senders \cap liveStreams[i] = {}

\* C29: whenever the links A->B and B->A are both stable with no signaling
\* message in flight, the two ends agree on one negotiation: one side's current
\* local description is the offer the other side applied as its remote
\* description, and the offerer applied the other side's answer. In particular
\* the two sides are never both stable with each holding its own answer to the
\* other's offer.
NothingInFlight(a, b) ==
    /\ net[<< a, b >>] = << >> /\ net[<< b, a >>] = << >>
    /\ pcs[a][b].ops = << >> /\ pcs[b][a].ops = << >>
    /\ tasks[a] = EmptyBag /\ tasks[b] = EmptyBag
NegotiatedBy(o, a) ==
    /\ pcs[o][a].currentLocal.type = "offer"
    /\ pcs[a][o].currentRemote = pcs[o][a].currentLocal
    /\ pcs[a][o].currentLocal.type = "answer"
    /\ pcs[o][a].currentRemote = pcs[a][o].currentLocal
NeverNegotiated(a, b) ==
    /\ pcs[a][b].currentLocal.type = "none" /\ pcs[a][b].currentRemote.type = "none"
    /\ pcs[b][a].currentLocal.type = "none" /\ pcs[b][a].currentRemote.type = "none"
BothAnswered(a, b) ==
    /\ pcs[a][b].currentLocal.type = "answer" /\ pcs[a][b].currentRemote.type = "offer"
    /\ pcs[b][a].currentLocal.type = "answer" /\ pcs[b][a].currentRemote.type = "offer"
StableEndsAgree ==
    \A pr \in Pairs :
        LET a == pr[1]
            b == pr[2]
        IN  ( /\ Mounted(a) /\ Mounted(b)
              /\ HasLink(pcs[a], b) /\ HasLink(pcs[b], a)
              /\ pcs[a][b].sig = Stable /\ pcs[b][a].sig = Stable
              /\ NothingInFlight(a, b) )
            => /\ NegotiatedBy(a, b) \/ NegotiatedBy(b, a) \/ NeverNegotiated(a, b)
               /\ ~BothAnswered(a, b)

\* C30: every key of an instance's link map is a member of its set of active
\* participants: no offer, answer or ICE candidate from a participant outside
\* that set makes a link.
LinksOnlyOfActiveUsers ==
    \A i \in Clients :
        Mounted(i) => DOMAIN pcs[i] \subseteq activeUsers[i]

\* C31: the audio sink of every open link is muted exactly when the
\* instance's audio-enabled flag is off, also for links made and remote tracks
\* received after the user toggled the flag.
SinkMutedIffAudioOff ==
    \A i \in Clients :
        Mounted(i) => \A p \in DOMAIN pcs[i] : pcs[i][p].muted = ~isAudioEnabled[i]

\* C32: at most one voice-activity loop is scheduled at any time and none
\* while the instance is muted: muting cancels the loop of the previous unmute,
\* and no sequence of unmute and mute clicks leaves more than one loop running.
OneLoopAndNoneWhileMuted ==
    \A i \in Clients :
        /\ vadLoops[i] <= 1
        /\ isMuted[i] => vadLoops[i] = 0

\* The step is the handler of d taking a voice-user-* event about c.
HandlesPresence(d, c, event) ==
    /\ subscribed[d] /\ pres[d] # << >>
    /\ Head(pres[d]) = [event |-> event, clientId |-> c]
    /\ pres'[d] = Tail(pres[d])
    /\ subscribed'[d] /\ phase'[d] = "mounted"

\* The step leaves what the instance keeps about its peers as it was.
PeersUntouched(d) ==
    /\ activeUsers'[d] = activeUsers[d] /\ talkingUsers'[d] = talkingUsers[d]
    /\ pcs'[d] = pcs[d] /\ tasks'[d] = tasks[d]
    /\ conns'[d] = conns[d] /\ sinks'[d] = sinks[d]

DuplicateStep ==
    \A d \in Clients, c \in Clients :
        /\ ( /\ HandlesPresence(d, c, "voice-user-joined")
             /\ c # d /\ c \in activeUsers[d] /\ HasLink(pcs[d], c) )
           => PeersUntouched(d)
        /\ ( /\ c = d
             /\ \/ HandlesPresence(d, c, "voice-user-joined")
                \/ HandlesPresence(d, c, "voice-user-left") )
           => PeersUntouched(d)

\* C33: a voice-user-joined handled for a participant that is already in the
\* active set with a link changes nothing (one entry, one link, no further
\* offer scheduled), and a join or leave event with the instance's own id
\* changes nothing.
DuplicateJoinChangesNothing == [][DuplicateStep]_vars

\* A waits to handle a second voice-user-joined of B, and B a leave of its own.
DuplicateJoinPending ==
    /\ subscribed["A"] /\ pres["A"] # << >>
    /\ Head(pres["A"]) = [event |-> "voice-user-joined", clientId |-> "B"]
    /\ "B" \in activeUsers["A"] /\ HasLink(pcs["A"], "B")
    /\ localStream["A"] # 0
    /\ subscribed["B"] /\ pres["B"] # << >>
    /\ Head(pres["B"]) = [event |-> "voice-user-left", clientId |-> "B"]

\* What the claim asks of the endpoint for the request r.
Complete(r) == r.sessionId # Missing /\ r.clientId # Missing /\ r.action # Missing

BroadcastOf(r, event) ==
    /\ \A d \in Clients :
          pres'[d] = IF subscribed[d] /\ r.sessionId = ThisSession
                     THEN Append(pres[d], [event |-> event, clientId |-> r.clientId])
                     ELSE pres[d]
    /\ api'.others = IF r.sessionId = ThisSession THEN api.others
                     ELSE Append(api.others, [event |-> << r.sessionId, event >>,
                                              clientId |-> r.clientId])

NoBroadcast == pres' = pres /\ api'.others = api.others

Answer(r) ==
    /\ (Complete(r) /\ r.action = "join")
       => BroadcastOf(r, "voice-user-joined") /\ api'.status = 200
    /\ (Complete(r) /\ r.action = "leave")
       => BroadcastOf(r, "voice-user-left") /\ api'.status = 200
    /\ (Complete(r) /\ r.action = "heartbeat") => NoBroadcast
    /\ (~Complete(r) \/ r.action \notin {"join", "leave", "heartbeat"})
       => NoBroadcast /\ api'.status = 400

EndpointStep ==
    /\ env'.requests < env.requests
       => \A r \in Requests : PresenceRequest(r) => Answer(r)
    /\ posts' # posts
       => \A c \in Clients, a \in {"join", "leave"} :
          PresencePost(c, a)
          => Answer([sessionId |-> ThisSession, clientId |-> c, action |-> a])

\* C34: the voice presence endpoint broadcasts voice-user-joined on a join and
\* voice-user-left on a leave, with the caller's clientId and on the voice
\* channel of the request's session only; a heartbeat broadcasts nothing; a
\* request that lacks sessionId, clientId or action, or has another action, is
\* answered with 400 and broadcasts nothing.
EndpointAnswers == [][EndpointStep]_vars

\* A request was refused after an event went out on another session's channel
\* and while a subscriber of this session has an event waiting.
RequestRefused ==
    /\ api.status = 400 /\ api.others # << >>
    /\ \E d \in Clients : subscribed[d] /\ pres[d] # << >>

\* The clients whose latest join or heartbeat is at most PRESENCE_TTL seconds
\* old and who have not left since.
LiveClients == {c \in Clients : api.heard[c] # None /\ api.heard[c] <= PRESENCE_TTL}

\* C35: the count of every presence-update equals the number of clients of the
\* session whose latest join or heartbeat is at most PRESENCE_TTL seconds old
\* and who have not left since.
CountIsOfTheLive ==
    [][\A t \in api.counts : PresenceUpdate(t) => t.count = Cardinality(LiveClients)]_vars

\* The count a request makes is that of the clients present as it counts.
CountAsCounted ==
    [][\A t \in api'.counts \ api.counts : t.count = Cardinality(LiveClients')]_vars

\* C36: for the session, at most one delayed database write is scheduled at a
\* time: while the timer of one PUT is pending, no other PUT has set a timer.
OneWriteScheduled == Len(doc.timers) <= 1

\* C37: once the PUT requests have stopped, the database row comes to hold,
\* and keeps, the language, code and input of the last accepted PUT (the
\* content of the cache entry).
LastUpdatePersisted == <>[](doc.db = doc.cache)

\* C38: a PUT without a sessionId is answered with 400 and a PUT for a session
\* that neither the cache nor the database has with 404; the step that answers
\* it leaves the cache entry, the pending update, the lock and the database
\* row as they were, broadcasts no code-updated and sets no timer.
RefusedPutChangesNothing ==
    [][\A r \in doc.puts :
          (r.sessionId # ThisSession /\ r \notin doc'.puts) =>
              /\ doc'.status = (IF r.sessionId = Missing THEN 400 ELSE 404)
              /\ doc'.cache = doc.cache
              /\ doc'.pending = doc.pending
              /\ doc'.lock = doc.lock
              /\ doc'.updates = doc.updates
              /\ doc'.timers = doc.timers
              /\ doc'.writes = doc.writes
              /\ doc'.db = doc.db]_vars

\* A PUT for an unknown session was answered while an update was pending and
\* the lock was held.
UnknownSessionRefused ==
    /\ doc.status = 404
    /\ doc.pending # << >>
    /\ doc.lock > 0
    /\ doc.timers # << >>

\* C39: a client does not send back what it received: a code-updated event
\* with the client's own id as source changes nothing at that client, and the
\* render that follows the handling of a remote event queues no saveSession
\* call for the content the handler has set.
NoResend ==
    [][\A d \in Clients :
          /\ ( /\ doc.updates[d] # << >>
               /\ Head(doc.updates[d]).source = d
               /\ doc'.updates[d] = Tail(doc.updates[d]) )
             => /\ doc'.content[d] = doc.content[d]
                /\ doc'.receiving[d] = doc.receiving[d]
                /\ doc'.saves[d] = doc.saves[d]
                /\ doc'.puts = doc.puts
          /\ (doc.applied[d] # << >> /\ doc'.applied[d] = << >>)
             => \A c \in doc'.saves[d] \ doc.saves[d] :
                    c # doc.applied[d][Len(doc.applied[d])]]_vars

====
